---- MODULE Spec2Model ----
(***************************************************************************)
(* Verification model of website-ux-reviewer: the LLM audit call with its  *)
(* retry / quota-fallback loop, the review sanitizer, the fallback review  *)
(* generator and analyzeAndSave (persistence and score-drop alerts).       *)
(*                                                                         *)
(* JavaScript values are modelled as tagged records so that the loosely    *)
(* typed sanitizer can be translated conversion by conversion:             *)
(*   [k |-> "undef"], [k |-> "null"], [k |-> "bool", b], [k |-> "num", n,  *)
(*   h] (the number n + h/2), [k |-> "nan"], [k |-> "inf", n] (sign),      *)
(*   [k |-> "str", s] (s a sequence of tokens, " " being white space),     *)
(*   [k |-> "arr", a], [k |-> "obj", f] and [k |-> "bad"]: an object that  *)
(*   JSON.parse built from {"toString": 0}, whose conversion to a          *)
(*   primitive raises TypeError.                                           *)
(***************************************************************************)
EXTENDS Integers, Sequences, FiniteSets, TLC

VARIABLES
    mode,        \* which entry point this behaviour exercises
    sanIn,       \* sanitizeReview: the parsed JSON value handed in
    sanOut,      \* sanitizeReview(sanIn), or Throw
    sanAgain,    \* sanitizeReview(sanOut), or Throw
    sanPhase,    \* "input" | "once" | "twice"
    fbIn,        \* createFallbackReview: the audit input text
    fbOut,       \* createFallbackReview(fbIn)
    fbSan,       \* sanitizeReview(fbOut)
    fbPhase,     \* "input" | "generated" | "sanitized"
    parseIn,     \* parsePossiblyWrappedJson: the model's reply text
    parseOut,    \* parsePossiblyWrappedJson(parseIn), or the error it throws
    parsePhase,  \* "input" | "parsed"
    envAllowFallback,   \* process.env.ALLOW_LLM_FALLBACK !== "false"
    envApiKey,          \* an LLM API key is configured
    store,              \* the review table, oldest row first
    pc,                 \* where analyzeAndSave stands
    req,                \* the analysis under way: url, source, payload
    previousReview,     \* the row findFirst returned, or Null
    attempt,            \* runUxAudit: the loop counter
    calls,              \* model calls made for this analysis
    sleeps,             \* the waitMs of every sleep of this analysis
    errors,             \* what every failed attempt of this analysis threw
    review,             \* the Review runUxAudit returned, or None
    auditVia,           \* "none" | "model" | "fallback" | "threw"
    thrown,             \* the error analyzeAndSave rethrows, or None
    websiteHealthScore, \* the composed health score, or None
    trace,              \* the steps of this analysis, in order
    alerts,             \* what this analysis handed to notifyChannels
    analyses,           \* analyses started so far
    enIn,        \* enrichFinding: the issue or finding handed in
    enOut,       \* enrichFinding(enIn)
    enAgain,     \* enrichFinding(enOut)
    enSan,       \* normalizeIssue / normalizeFinding of enIn
    enPiped,     \* enrichFinding(enSan)
    enPhase,     \* "input" | "once" | "twice" | "sanitized" | "piped"
    dfParams,    \* buildAuditDiff: its parameter object
    dfOut,       \* buildAuditDiff(dfParams)
    dfBack,      \* buildAuditDiff with previous and current exchanged
    dfPhase,     \* "input" | "built" | "both"
    hsIn,        \* calculateWebsiteHealthScore: its four scores
    hsOut,       \* calculateWebsiteHealthScore(hsIn)
    hsPhase,     \* "input" | "composed"
    scIn,        \* the input of an analyzer
    scOut,       \* the analysis it returned
    scPhase,     \* input, analyzed or correlated
    pfKey,       \* whether PAGESPEED_API_KEY is configured
    pfPc,        \* where getPerformanceReport stands
    pfAttempt,   \* the attempt of its loop
    pfOut,       \* what it returned or threw
    pfLog,       \* the entries it logged
    rtRoute,     \* the route of the request
    rtBody,      \* the body submitted
    rtRequestId, \* the id the route gave the request
    rtPc,        \* received, analyzing or responded
    rtCalls,     \* the calls of analyzeAndSave made
    rtResponse,  \* the response of the route
    rtOutcomes,  \* what the analyses came to, in the order of the calls
    hiStore,     \* the reviews stored, oldest first
    hiClock,     \* the number of reviews ever created
    hiSaves,     \* the analyses completed since the start
    stEnv,       \* the environment of the status route
    stPc,        \* received, pinged, checked or responded
    stPing,      \* what the database ping came to
    stDatabase,  \* the database status of the route
    stCompletion,\* what the model call of the health check came to
    stLlm,       \* the result of runOpenAIHealthCheck
    stResponse,  \* the response of the status route
    lbItem,      \* the issue whose label is inferred
    lbPc,        \* input | labelled
    lbOut,       \* the enriched issue
    saAudits,    \* the scheduledAudit table, by id
    saClock,     \* the day it is
    saPc,        \* idle | running | responded
    saNow,       \* now, as runScheduledAudits read it
    saDue,       \* dueAudits, the rows findMany returned
    saIdx,       \* the place of the for loop in dueAudits
    saAttempts,  \* the audits the loop went through, with how each ended
    saResponse,  \* the status the cron route answered with
    saRuns,      \* cron requests so far
    ccStore,     \* the review table: rows with id and createdAt
    ccClock,     \* the time in milliseconds
    ccPc,        \* where each of the two calls is
    ccCreated,   \* the id of the row each call created
    ccStale,     \* the ids findMany gave each call
    alEnv,       \* the SMTP and Slack settings of the environment
    alReq,       \* the analysis that is about to be saved
    alPc,        \* analyzed | alert | returned | rejected
    alPersisted, \* the review row has been created
    alQueue,     \* the alerts analyzeAndSave has yet to send
    alLog,       \* what the two channels logged, alert by alert
    alResult     \* what analyzeAndSave resolved or rejected with

sanVars == <<sanIn, sanOut, sanAgain, sanPhase>>
fbVars == <<fbIn, fbOut, fbSan, fbPhase>>
parseVars == <<parseIn, parseOut, parsePhase>>
envVars == <<envAllowFallback, envApiKey>>
auditVars == <<attempt, calls, sleeps, errors, review, auditVia, thrown>>
pipeVars == <<envVars, store, pc, req, previousReview, auditVars, websiteHealthScore,
              trace, alerts, analyses>>
coreVars == <<sanVars, fbVars, parseVars, pipeVars>>
enVars == <<enIn, enOut, enAgain, enSan, enPiped, enPhase>>
dfVars == <<dfParams, dfOut, dfBack, dfPhase>>
hsVars == <<hsIn, hsOut, hsPhase>>
scVars == <<scIn, scOut, scPhase>>
pfVars == <<pfKey, pfPc, pfAttempt, pfOut, pfLog>>
rtVars == <<rtRoute, rtBody, rtRequestId, rtPc, rtCalls, rtResponse, rtOutcomes>>
hiVars == <<hiStore, hiClock, hiSaves>>
stVars == <<stEnv, stPc, stPing, stDatabase, stCompletion, stLlm, stResponse>>
lbVars == <<lbItem, lbPc, lbOut>>
saVars == <<saAudits, saClock, saPc, saNow, saDue, saIdx, saAttempts, saResponse, saRuns>>
ccVars == <<ccStore, ccClock, ccPc, ccCreated, ccStale>>
alVars == <<alEnv, alReq, alPc, alPersisted, alQueue, alLog, alResult>>
libVars == <<enVars, dfVars, hsVars, scVars, pfVars, rtVars, hiVars, stVars, lbVars, saVars, ccVars, alVars>>
notEnVars == <<coreVars, dfVars, hsVars, scVars, pfVars, rtVars, hiVars, stVars, lbVars, saVars, ccVars, alVars>>
notDfVars == <<coreVars, enVars, hsVars, scVars, pfVars, rtVars, hiVars, stVars, lbVars, saVars, ccVars, alVars>>
notHealthVars == <<coreVars, enVars, dfVars, scVars, pfVars, rtVars, hiVars, stVars, lbVars, saVars, ccVars, alVars>>
notScoresVars == <<coreVars, enVars, dfVars, hsVars, pfVars, rtVars, hiVars, stVars, lbVars, saVars, ccVars, alVars>>
notPerfVars == <<coreVars, enVars, dfVars, hsVars, scVars, rtVars, hiVars, stVars, lbVars, saVars, ccVars, alVars>>
notRoutesVars == <<coreVars, enVars, dfVars, hsVars, scVars, pfVars, hiVars, stVars, lbVars, saVars, ccVars, alVars>>
notHistoryVars == <<coreVars, enVars, dfVars, hsVars, scVars, pfVars, rtVars, stVars, lbVars, saVars, ccVars, alVars>>
notStatusVars == <<coreVars, enVars, dfVars, hsVars, scVars, pfVars, rtVars, hiVars, lbVars, saVars, ccVars, alVars>>
notLabelVars == <<coreVars, enVars, dfVars, hsVars, scVars, pfVars, rtVars, hiVars, stVars, saVars, ccVars, alVars>>
notSchedVars == <<coreVars, enVars, dfVars, hsVars, scVars, pfVars, rtVars, hiVars, stVars, lbVars, ccVars, alVars>>
notConcurrentVars == <<coreVars, enVars, dfVars, hsVars, scVars, pfVars, rtVars, hiVars, stVars, lbVars, saVars, alVars>>
notAlertsVars == <<coreVars, enVars, dfVars, hsVars, scVars, pfVars, rtVars, hiVars, stVars, lbVars, saVars, ccVars>>
vars == <<mode, sanVars, fbVars, parseVars, pipeVars, libVars>>

-----------------------------------------------------------------------------
(* JavaScript values *)

Undef == [k |-> "undef"]
Null == [k |-> "null"]
NaN == [k |-> "nan"]
Bad == [k |-> "bad"]
Throw == [k |-> "throw"]
None == [k |-> "none"]
Bool(b) == [k |-> "bool", b |-> b]
Num(n) == [k |-> "num", n |-> n, h |-> 0]
NumHalf(n) == [k |-> "num", n |-> n, h |-> 1]
Inf(sign) == [k |-> "inf", n |-> sign]
Str(s) == [k |-> "str", s |-> s]
Arr(a) == [k |-> "arr", a |-> a]
Obj(f) == [k |-> "obj", f |-> f]
EmptyRec == [x \in {} |-> Undef]
W(word) == Str(<<word>>)

\* obj.name: undefined when the property is absent or the value has no such
\* own property (primitives, arrays).
Get(v, name) ==
    IF v.k = "obj" /\ name \in DOMAIN v.f THEN v.f[name] ELSE Undef

\* a ?? b
Coalesce(a, b) == IF a.k \in {"undef", "null"} THEN b ELSE a

\* !!v
Truthy(v) ==
    CASE v.k \in {"undef", "null", "nan"} -> FALSE
      [] v.k = "bool" -> v.b
      [] v.k = "num" -> ~(v.n = 0 /\ v.h = 0)
      [] v.k = "str" -> v.s # <<>>
      [] OTHER -> TRUE

\* a || b
OrElse(a, b) == IF Truthy(a) THEN a ELSE b

\* typeof v === "object" (null is excluded by the callers' !v test)
IsObjectLike(v) == v.k \in {"obj", "arr", "bad"}

IsArray(v) == v.k = "arr"

RECURSIVE TrimLeft(_)
TrimLeft(s) == IF s # <<>> /\ Head(s) = " " THEN TrimLeft(Tail(s)) ELSE s

RECURSIVE TrimRight(_)
TrimRight(s) ==
    IF s # <<>> /\ s[Len(s)] = " " THEN TrimRight(SubSeq(s, 1, Len(s) - 1)) ELSE s

\* String.prototype.trim
Trim(s) == TrimRight(TrimLeft(s))

\* String.prototype.toLowerCase, token by token
LowerTok(t) ==
    CASE t \in {"HIGH", "High"} -> "high"
      [] t \in {"MEDIUM", "Medium"} -> "medium"
      [] t \in {"LOW", "Low"} -> "low"
      [] t \in {"Layout", "LAYOUT"} -> "layout"
      [] t \in {"Trust", "TRUST"} -> "trust"
      [] t = "Heuristic" -> "heuristic"
      [] t = "Critical" -> "critical"
      [] t = "Nav" -> "nav"
      [] OTHER -> t

ToLowerCase(s) == [i \in 1..Len(s) |-> LowerTok(s[i])]

\* The numeric literals that occur as string tokens.
NumRange == -200..200

\* Number(string): white space trimmed, "" is 0, a numeric literal is its
\* value, anything else NaN.
NumberOfString(s) ==
    LET t == Trim(s)
    IN  IF t = <<>> THEN Num(0)
        ELSE IF Len(t) = 1 /\ t[1] = "Infinity" THEN Inf(1)
        ELSE IF Len(t) = 1 /\ t[1] = "-Infinity" THEN Inf(-1)
        ELSE IF Len(t) = 1 /\ \E n \in NumRange : ToString(n) = t[1]
             THEN Num(CHOOSE n \in NumRange : ToString(n) = t[1])
        ELSE NaN

RECURSIVE ToStr(_)
RECURSIVE JoinElems(_)

\* Array.prototype.join(","): null and undefined elements become "".
JoinElems(a) ==
    IF a = <<>> THEN Str(<<>>)
    ELSE LET h == IF Head(a).k \in {"undef", "null"} THEN Str(<<>>) ELSE ToStr(Head(a))
             r == JoinElems(Tail(a))
         IN  IF h = Throw \/ r = Throw THEN Throw
             ELSE IF Len(a) = 1 THEN h ELSE Str(h.s \o <<",">> \o r.s)

\* String(v); Throw when the conversion raises TypeError.
ToStr(v) ==
    CASE v.k = "undef" -> W("undefined")
      [] v.k = "null" -> W("null")
      [] v.k = "bool" -> IF v.b THEN W("true") ELSE W("false")
      [] v.k = "num" -> IF v.h = 0 THEN W(ToString(v.n)) ELSE Str(<<ToString(v.n), ".5">>)
      [] v.k = "nan" -> W("NaN")
      [] v.k = "inf" -> IF v.n > 0 THEN W("Infinity") ELSE W("-Infinity")
      [] v.k = "str" -> v
      [] v.k = "arr" -> JoinElems(v.a)
      [] v.k = "obj" -> W("[object Object]")
      [] OTHER -> Throw

\* Number(v); Throw when the conversion raises TypeError.
ToNumber(v) ==
    CASE v.k = "undef" -> NaN
      [] v.k = "null" -> Num(0)
      [] v.k = "bool" -> IF v.b THEN Num(1) ELSE Num(0)
      [] v.k \in {"num", "nan", "inf"} -> v
      [] v.k = "str" -> NumberOfString(v.s)
      [] v.k = "arr" -> LET j == JoinElems(v.a)
                        IN  IF j = Throw THEN Throw ELSE NumberOfString(j.s)
      [] v.k = "obj" -> NaN
      [] OTHER -> Throw

\* Math.round of a number value: n + 1/2 rounds up to n + 1.
MathRound(v) == IF v.k = "num" THEN Num(v.n + v.h) ELSE v

IsFinite(v) == v.k = "num"

-----------------------------------------------------------------------------
(* The review sanitizer *)

allowedCategories == {<<"clarity">>, <<"layout">>, <<"navigation">>, <<"accessibility">>, <<"trust">>}
allowedSeverity == {<<"low">>, <<"medium">>, <<"high">>}
allowedConfidence == {<<"high">>, <<"medium">>, <<"low">>}
allowedSourceTypes == {<<"deterministic">>, <<"heuristic">>, <<"ai_inferred">>}
allowedPriorityLabels == {<<"critical">>, <<"high">>, <<"medium">>, <<"low">>, <<"quick_win">>}

MaxIssuesKept == 12
MaxImprovementsKept == 3
MaxFindingsKept == 10
MaxFallbackFindings == 6

Min(a, b) == IF a < b THEN a ELSE b
Max(a, b) == IF a > b THEN a ELSE b

\* Math.max(0, Math.min(100, Math.round(value))): NaN stays NaN, the
\* infinities clamp to the ends.
clampScore(value) ==
    CASE value.k = "num" -> Num(Max(0, Min(100, MathRound(value).n)))
      [] value.k = "inf" -> IF value.n > 0 THEN Num(100) ELSE Num(0)
      [] OTHER -> NaN

\* value - k in JavaScript arithmetic
Minus(value, k) ==
    CASE value.k = "num" -> [value EXCEPT !.n = value.n - k]
      [] OTHER -> value

\* The tail of toClampedScore, given Number(value).
ClampParsed(parsed, fallback) ==
    IF parsed = Throw THEN Throw
    ELSE IF ~IsFinite(parsed) THEN Num(fallback)
    ELSE clampScore(parsed)

toClampedScore(value, fallback) == ClampParsed(ToNumber(value), fallback)

\* String(value || dflt), Throw if the conversion raises.
StrOr(value, dflt) == ToStr(OrElse(value, Str(dflt)))

\* s.toLowerCase(), kept if allowed, else dflt.
PickEnum(s, allowed, dflt) ==
    IF s = Throw THEN Throw
    ELSE IF ToLowerCase(s.s) \in allowed THEN Str(ToLowerCase(s.s))
    ELSE Str(dflt)

\* String(value || dflt).toLowerCase(), kept if allowed, else dflt.
EnumOr(value, allowed, dflt) == PickEnum(StrOr(value, dflt), allowed, dflt)

TrimStr(s) == IF s = Throw THEN Throw ELSE Str(Trim(s.s))

\* String(value || dflt).trim()
TrimmedOr(value, dflt) == TrimStr(StrOr(value, dflt))

\* s || undefined
OrUndefined(s) == IF s = Throw THEN Throw ELSE IF s.s = <<>> THEN Undef ELSE s

\* A record without its undefined-valued properties (what is serialised).
DropUndef(rec) ==
    [name \in {x \in DOMAIN rec : rec[x] # Undef} |-> rec[name]]

AnyThrow(rec) == \E name \in DOMAIN rec : rec[name] = Throw

\* The object literal a normalizer returns, or Throw if building it raised.
FinishItem(rec) == IF AnyThrow(rec) THEN Throw ELSE Obj(DropUndef(rec))

\* The fields normalizeIssue and normalizeFinding have in common.
FindingFields(item, untitled) ==
    [title |-> TrimmedOr(Get(item, "title"), untitled),
     why |-> TrimmedOr(Get(item, "why"), <<"No explanation provided.">>),
     evidence |-> TrimmedOr(Get(item, "evidence"), <<>>),
     severity |-> EnumOr(Get(item, "severity"), allowedSeverity, <<"medium">>),
     confidence |-> EnumOr(Get(item, "confidence"), allowedConfidence, <<"medium">>),
     evidenceWeight |-> toClampedScore(Get(item, "evidenceWeight"), 50),
     sourceType |-> EnumOr(Get(item, "sourceType"), allowedSourceTypes, <<"ai_inferred">>),
     impactScore |-> toClampedScore(Get(item, "impactScore"), 60),
     effortScore |-> toClampedScore(Get(item, "effortScore"), 45),
     priorityScore |-> toClampedScore(Get(item, "priorityScore"), 50),
     priorityLabel |-> EnumOr(Get(item, "priorityLabel"), allowedPriorityLabels, <<"medium">>),
     fixSnippet |-> OrUndefined(TrimmedOr(Get(item, "fixSnippet"), <<>>))]

normalizeIssue(input) ==
    IF ~Truthy(input) \/ ~IsObjectLike(input) THEN Null
    ELSE FinishItem([category |-> EnumOr(Get(input, "category"), allowedCategories, <<"clarity">>)]
                    @@ FindingFields(input, <<"Untitled issue">>))

normalizeFinding(input) ==
    IF ~Truthy(input) \/ ~IsObjectLike(input) THEN Null
    ELSE FinishItem(FindingFields(input, <<"Untitled finding">>))

normalizeImprovement(value) ==
    IF ~Truthy(value) \/ ~IsObjectLike(value) THEN Null
    ELSE FinishItem([before |-> TrimmedOr(Get(value, "before"), <<>>),
                     after |-> TrimmedOr(Get(value, "after"), <<>>)])

\* .filter(Boolean)
Kept(mapped) == SelectSeq(mapped, LAMBDA x : x # Null)

\* list.map(f).filter(Boolean).slice(0, cap) for an already mapped list, as
\* an array value; Throw if mapping any element raised.
FilterSlice(mapped, cap) ==
    IF \E i \in 1..Len(mapped) : mapped[i] = Throw THEN Throw
    ELSE Arr(SubSeq(Kept(mapped), 1, Min(cap, Len(Kept(mapped)))))

normalizeIssueList(list) ==
    FilterSlice([i \in 1..Len(list) |-> normalizeIssue(list[i])], MaxIssuesKept)

normalizeImprovementList(list) ==
    FilterSlice([i \in 1..Len(list) |-> normalizeImprovement(list[i])], MaxImprovementsKept)

\* value if it is an array, else []
ListOf(value) == IF IsArray(value) THEN value.a ELSE <<>>

\* findings if there are any, else the fallback
OrFallback(findings, fallback) ==
    IF findings = Throw THEN Throw
    ELSE IF Len(findings.a) > 0 THEN findings
    ELSE Arr(fallback)

normalizeFindings(value, fallback) ==
    OrFallback(FilterSlice([i \in 1..Len(ListOf(value)) |-> normalizeFinding(ListOf(value)[i])],
                           MaxFindingsKept),
               fallback)

\* { score: clampScore(n), findings }
MakeSection(n, findings) ==
    IF n = Throw \/ findings = Throw THEN Throw
    ELSE Obj([score |-> clampScore(n), findings |-> findings])

\* One audit section: clampScore(Number(section.score ?? score - offset))
\* and normalizeFindings(section.findings, fallbackFindings).
sanitizeSection(section, score, offset, fallback) ==
    MakeSection(ToNumber(Coalesce(Get(section, "score"), Minus(score, offset))),
                normalizeFindings(Get(section, "findings"), fallback))

\* issues.slice(0, 6) reshaped as findings
FallbackFindings(issues) ==
    [i \in 1..Min(MaxFallbackFindings, Len(issues)) |->
        Obj([title |-> issues[i].f.title,
             why |-> issues[i].f.why,
             evidence |-> issues[i].f.evidence,
             severity |-> issues[i].f.severity])]

\* a if it has elements, else b
NonEmptyOr(a, b) == IF Len(a.a) > 0 THEN a ELSE b

\* The object literal sanitizeReview returns.
ReviewObject(score, outIssues, outImprovements, uxScore, accessibility, seo, visual) ==
    IF uxScore = Throw \/ accessibility = Throw \/ seo = Throw \/ visual = Throw
    THEN Throw
    ELSE Obj([score |-> score,
              issues |-> outIssues,
              top_improvements |-> outImprovements,
              ux |-> Obj([score |-> clampScore(uxScore),
                          issues |-> outIssues,
                          top_improvements |-> outImprovements]),
              accessibility |-> accessibility,
              seo |-> seo,
              visual |-> visual])

\* sanitizeReview from the ux block on, given the top-level parts.
SanitizeSections(source, score, issues, top_improvements, uxIssues, uxTopImprovements,
                 uxSection) ==
    IF uxIssues = Throw \/ uxTopImprovements = Throw THEN Throw
    ELSE ReviewObject(
            score,
            NonEmptyOr(uxIssues, issues),
            NonEmptyOr(uxTopImprovements, top_improvements),
            ToNumber(Coalesce(Get(uxSection, "score"), score)),
            sanitizeSection(OrElse(Get(source, "accessibility"),
                                   OrElse(Get(source, "a11y"), Obj(EmptyRec))),
                            score, 8, FallbackFindings(issues.a)),
            sanitizeSection(OrElse(Get(source, "seo"), Obj(EmptyRec)),
                            score, 6, FallbackFindings(issues.a)),
            sanitizeSection(OrElse(Get(source, "visual"),
                                   OrElse(Get(source, "visual_findings"), Obj(EmptyRec))),
                            score, 5, FallbackFindings(issues.a)))

\* sanitizeReview from the ux lists on.
SanitizeUx(source, score, issues, top_improvements, uxSection) ==
    IF score = Throw \/ issues = Throw \/ top_improvements = Throw THEN Throw
    ELSE SanitizeSections(
            source, score, issues, top_improvements,
            normalizeIssueList(IF IsArray(Get(uxSection, "issues"))
                               THEN Get(uxSection, "issues").a ELSE issues.a),
            normalizeImprovementList(IF IsArray(Get(uxSection, "top_improvements"))
                                     THEN Get(uxSection, "top_improvements").a
                                     ELSE top_improvements.a),
            uxSection)

\* clampScore of a number, Throw if Number() raised.
ClampOrThrow(n) == IF n = Throw THEN Throw ELSE clampScore(n)

SanitizeSource(source) ==
    SanitizeUx(source,
               ClampOrThrow(ToNumber(Coalesce(Get(source, "score"),
                                     Coalesce(Get(source, "website_health_score"),
                                     Coalesce(Get(source, "health_score"), Num(0)))))),
               normalizeIssueList(ListOf(Get(source, "issues"))),
               normalizeImprovementList(ListOf(Get(source, "top_improvements"))),
               OrElse(Get(source, "ux"), Obj(EmptyRec)))

sanitizeReview(input) == SanitizeSource(Coalesce(input, Obj(EmptyRec)))

-----------------------------------------------------------------------------
(* Inputs of the sanitizer: parsed JSON values of the shapes a model reply  *)
(* can take, each part drawn from a small set.                              *)

\* One more than MaxIssuesKept / MaxFindingsKept / MaxImprovementsKept, so
\* that the slices cut something.
LongIssues == 13
LongFindings == 11
LongImprovements == 4

Repeat(x, n) == [i \in 1..n |-> x]

IssueFull ==
    Obj([category |-> W("Layout"), title |-> W("Nav"), why |-> W("w"),
         evidence |-> Str(<<"e", " ">>), severity |-> W("HIGH"),
         confidence |-> W("high"), evidenceWeight |-> W("42"),
         sourceType |-> W("Heuristic"), impactScore |-> Num(150),
         effortScore |-> Num(-5), priorityScore |-> NumHalf(70),
         priorityLabel |-> W("quick_win"), fixSnippet |-> W("fix")])

IssuePlain ==
    Obj([category |-> W("trust"), title |-> W("Policy"), why |-> W("w"),
         evidence |-> W("e"), severity |-> W("low")])

IssueBlank ==
    Obj([category |-> W("bogus"), title |-> W(" "), why |-> Str(<<>>),
         severity |-> Num(3), confidence |-> Str(<<" ", "high">>),
         evidenceWeight |-> Null, impactScore |-> W("abc"),
         effortScore |-> Inf(1), priorityLabel |-> Bool(TRUE),
         fixSnippet |-> W(" ")])

IssueBadCategory == Obj([category |-> Bad, title |-> W("Nav")])

RawIssues ==
    {IssueFull, IssuePlain, IssueBlank, Obj(EmptyRec), Arr(<<>>), Null, W("text"),
     IssueBadCategory}

IssueListInputs ==
    {Undef, W("none"), Arr(<<>>), Arr(Repeat(IssueFull, LongIssues))}
    \cup {Arr(<<a>>) : a \in RawIssues}
    \cup {Arr(<<a, b>>) : a, b \in {IssuePlain, IssueBlank}}

ImprovementInputs ==
    {Undef,
     Arr(<<Obj([before |-> W("b"), after |-> Str(<<" ", "a">>)]), Null, Obj(EmptyRec)>>),
     Arr(Repeat(Obj([before |-> W("b"), after |-> W("a")]), LongImprovements))}

ScoreInputs ==
    {EmptyRec,
     [score |-> Num(72)], [score |-> NumHalf(99)], [score |-> Num(150)],
     [score |-> Num(-5)], [score |-> W("abc")], [score |-> W("42")],
     [score |-> Null, health_score |-> Num(31)],
     [website_health_score |-> Num(64)]}

UxInputs ==
    {EmptyRec,
     [ux |-> Obj([score |-> W("n/a")])],
     [ux |-> Obj([score |-> Num(50), issues |-> Arr(<<IssuePlain>>),
                  top_improvements |-> Arr(<<Obj([before |-> W("b2"), after |-> W("a2")])>>)])],
     [ux |-> W("fine")]}

FindingFull ==
    Obj([title |-> W("Alt"), why |-> W("w"), evidence |-> W("e"), severity |-> W("Medium"),
         impactScore |-> Num(80)])

AccessibilityInputs ==
    {EmptyRec,
     [accessibility |-> Obj([score |-> Num(64)])],
     [a11y |-> Obj([findings |-> Arr(<<FindingFull, Null>>)])],
     [accessibility |-> Obj([score |-> W("low"),
                             findings |-> Arr(Repeat(FindingFull, LongFindings))])]}

SeoInputs == {EmptyRec, [seo |-> Obj([score |-> Num(3), findings |-> Arr(<<Obj(EmptyRec)>>)])]}

VisualInputs == {EmptyRec, [visual_findings |-> Obj([score |-> Inf(-1)])]}

\* Scores and sections vary against a short issue list; issue lists, the ux
\* block and the improvements vary against a plain score.
SanitizerInputs ==
    {Undef, Null, W("text"), Num(7), Arr(<<IssuePlain>>)}
    \cup {Obj(s @@ [issues |-> i] @@ a @@ v) :
            s \in ScoreInputs, i \in {Undef, Arr(<<IssuePlain>>)},
            a \in AccessibilityInputs, v \in VisualInputs}
    \cup {Obj(s @@ [issues |-> i, top_improvements |-> t] @@ u @@ e) :
            s \in {EmptyRec, [score |-> Num(72)]}, i \in IssueListInputs,
            t \in ImprovementInputs, u \in UxInputs, e \in SeoInputs}

-----------------------------------------------------------------------------
(* The sanitizer applied to an input, and again to its own output *)

IdleSanitize == sanIn = None /\ sanOut = None /\ sanAgain = None /\ sanPhase = "idle"
IdleFallback == fbIn = <<>> /\ fbOut = None /\ fbSan = None /\ fbPhase = "idle"
IdleParse == parseIn = <<>> /\ parseOut = None /\ parsePhase = "idle"
IdleAudit ==
    /\ attempt = 0 /\ calls = 0 /\ sleeps = <<>> /\ errors = <<>>
    /\ review = None /\ auditVia = "none" /\ thrown = None
IdlePipeline ==
    /\ envAllowFallback = TRUE /\ envApiKey = TRUE
    /\ store = <<>> /\ pc = "off" /\ req = None /\ previousReview = Null
    /\ IdleAudit
    /\ websiteHealthScore = None /\ trace = <<>> /\ alerts = <<>> /\ analyses = 0
IdleCore == IdleSanitize /\ IdleFallback /\ IdleParse /\ IdlePipeline
IdleEnrich ==
    /\ enIn = None /\ enOut = None /\ enAgain = None /\ enSan = None /\ enPiped = None
    /\ enPhase = "idle"
IdleDiff == dfParams = None /\ dfOut = None /\ dfBack = None /\ dfPhase = "idle"
IdleHealth == hsIn = None /\ hsOut = None /\ hsPhase = "idle"
IdleScores == scIn = None /\ scOut = None /\ scPhase = "idle"
IdlePerf == pfKey = FALSE /\ pfPc = "idle" /\ pfAttempt = 0 /\ pfOut = None /\ pfLog = <<>>
IdleRoutes == rtRoute = "none" /\ rtBody = None /\ rtRequestId = "" /\ rtPc = "idle" /\ rtCalls = <<>> /\ rtResponse = None /\ rtOutcomes = <<>>
IdleHistory == hiStore = <<>> /\ hiClock = 0 /\ hiSaves = 0
IdleStatus == stEnv = None /\ stPc = "idle" /\ stPing = None /\ stDatabase = "OK" /\ stCompletion = None /\ stLlm = None /\ stResponse = None
IdleLabel == lbItem = None /\ lbPc = "idle" /\ lbOut = None
IdleSched == saAudits = <<>> /\ saClock = 0 /\ saPc = "off" /\ saNow = 0 /\ saDue = <<>> /\ saIdx = 0 /\ saAttempts = <<>> /\ saResponse = 0 /\ saRuns = 0
IdleConcurrent == ccStore = {} /\ ccClock = 0 /\ ccPc = <<>> /\ ccCreated = <<>> /\ ccStale = <<>>
IdleAlerts == alEnv = None /\ alReq = None /\ alPc = "off" /\ alPersisted = FALSE /\ alQueue = <<>> /\ alLog = <<>> /\ alResult = None
IdleLib == IdleEnrich /\ IdleDiff /\ IdleHealth /\ IdleScores /\ IdlePerf /\ IdleRoutes /\ IdleHistory /\ IdleStatus /\ IdleLabel /\ IdleSched /\ IdleConcurrent /\ IdleAlerts
IdleNotEnrich == IdleCore /\ IdleDiff /\ IdleHealth /\ IdleScores /\ IdlePerf /\ IdleRoutes /\ IdleHistory /\ IdleStatus /\ IdleLabel /\ IdleSched /\ IdleConcurrent /\ IdleAlerts
IdleNotDiff == IdleCore /\ IdleEnrich /\ IdleHealth /\ IdleScores /\ IdlePerf /\ IdleRoutes /\ IdleHistory /\ IdleStatus /\ IdleLabel /\ IdleSched /\ IdleConcurrent /\ IdleAlerts
IdleNotHealth == IdleCore /\ IdleEnrich /\ IdleDiff /\ IdleScores /\ IdlePerf /\ IdleRoutes /\ IdleHistory /\ IdleStatus /\ IdleLabel /\ IdleSched /\ IdleConcurrent /\ IdleAlerts
IdleNotScores == IdleCore /\ IdleEnrich /\ IdleDiff /\ IdleHealth /\ IdlePerf /\ IdleRoutes /\ IdleHistory /\ IdleStatus /\ IdleLabel /\ IdleSched /\ IdleConcurrent /\ IdleAlerts
IdleNotPerf == IdleCore /\ IdleEnrich /\ IdleDiff /\ IdleHealth /\ IdleScores /\ IdleRoutes /\ IdleHistory /\ IdleStatus /\ IdleLabel /\ IdleSched /\ IdleConcurrent /\ IdleAlerts
IdleNotRoutes == IdleCore /\ IdleEnrich /\ IdleDiff /\ IdleHealth /\ IdleScores /\ IdlePerf /\ IdleHistory /\ IdleStatus /\ IdleLabel /\ IdleSched /\ IdleConcurrent /\ IdleAlerts
IdleNotHistory == IdleCore /\ IdleEnrich /\ IdleDiff /\ IdleHealth /\ IdleScores /\ IdlePerf /\ IdleRoutes /\ IdleStatus /\ IdleLabel /\ IdleSched /\ IdleConcurrent /\ IdleAlerts
IdleNotStatus == IdleCore /\ IdleEnrich /\ IdleDiff /\ IdleHealth /\ IdleScores /\ IdlePerf /\ IdleRoutes /\ IdleHistory /\ IdleLabel /\ IdleSched /\ IdleConcurrent /\ IdleAlerts
IdleNotLabel == IdleCore /\ IdleEnrich /\ IdleDiff /\ IdleHealth /\ IdleScores /\ IdlePerf /\ IdleRoutes /\ IdleHistory /\ IdleStatus /\ IdleSched /\ IdleConcurrent /\ IdleAlerts
IdleNotSched == IdleCore /\ IdleEnrich /\ IdleDiff /\ IdleHealth /\ IdleScores /\ IdlePerf /\ IdleRoutes /\ IdleHistory /\ IdleStatus /\ IdleLabel /\ IdleConcurrent /\ IdleAlerts
IdleNotConcurrent == IdleCore /\ IdleEnrich /\ IdleDiff /\ IdleHealth /\ IdleScores /\ IdlePerf /\ IdleRoutes /\ IdleHistory /\ IdleStatus /\ IdleLabel /\ IdleSched /\ IdleAlerts
IdleNotAlerts == IdleCore /\ IdleEnrich /\ IdleDiff /\ IdleHealth /\ IdleScores /\ IdlePerf /\ IdleRoutes /\ IdleHistory /\ IdleStatus /\ IdleLabel /\ IdleSched /\ IdleConcurrent

InitSanitize ==
    /\ mode = "sanitize"
    /\ IdleLib
    /\ sanIn \in SanitizerInputs
    /\ sanOut = None
    /\ sanAgain = None
    /\ sanPhase = "input"
    /\ IdleFallback
    /\ IdleParse
    /\ IdlePipeline

SanitizeOnce ==
    /\ mode = "sanitize"
    /\ sanPhase = "input"
    /\ sanOut' = sanitizeReview(sanIn)
    /\ sanPhase' = "once"
    /\ UNCHANGED <<mode, libVars, sanIn, sanAgain, fbVars, parseVars, pipeVars>>

SanitizeAgain ==
    /\ mode = "sanitize"
    /\ sanPhase = "once"
    /\ sanOut # Throw
    /\ sanAgain' = sanitizeReview(sanOut)
    /\ sanPhase' = "twice"
    /\ UNCHANGED <<mode, libVars, sanIn, sanOut, fbVars, parseVars, pipeVars>>

NextSanitize == SanitizeOnce \/ SanitizeAgain

SpecSanitize == InitSanitize /\ [][NextSanitize]_vars

-----------------------------------------------------------------------------
(* Properties of the sanitizer *)

IsScore(v) == v.k = "num" /\ v.h = 0 /\ v.n \in 0..100

InEnum(item, name, allowed) ==
    name \in DOMAIN item.f => item.f[name].k = "str" /\ item.f[name].s \in allowed

ScoreFieldOk(item, name) == name \in DOMAIN item.f => IsScore(item.f[name])

FindingOk(item) ==
    /\ InEnum(item, "severity", allowedSeverity)
    /\ InEnum(item, "confidence", allowedConfidence)
    /\ InEnum(item, "sourceType", allowedSourceTypes)
    /\ InEnum(item, "priorityLabel", allowedPriorityLabels)
    /\ \A name \in {"evidenceWeight", "impactScore", "effortScore", "priorityScore"} :
          ScoreFieldOk(item, name)

IssueOk(item) == FindingOk(item) /\ InEnum(item, "category", allowedCategories)

SectionOk(section) ==
    /\ IsScore(section.f.score)
    /\ Len(section.f.findings.a) <= MaxFindingsKept
    /\ \A i \in 1..Len(section.f.findings.a) : FindingOk(section.f.findings.a[i])

ReviewInvariants(r) ==
    /\ IsScore(r.f.score)
    /\ IsScore(r.f.ux.f.score)
    /\ Len(r.f.issues.a) <= MaxIssuesKept
    /\ Len(r.f.top_improvements.a) <= MaxImprovementsKept
    /\ \A i \in 1..Len(r.f.issues.a) : IssueOk(r.f.issues.a[i])
    /\ SectionOk(r.f.accessibility)
    /\ SectionOk(r.f.seo)
    /\ SectionOk(r.f.visual)

\* C5: every Review the sanitizer returns satisfies the Review invariants:
\* integer scores in [0,100], bounded lists, enum fields within their enums
\* (inputs on which the sanitizer raises are the subject of C7).
C5_SanitizedReviewInvariants ==
    (sanPhase # "input" /\ sanOut # Throw) => ReviewInvariants(sanOut)

\* C6: sanitizing an already sanitized Review returns an equal Review.
C6_SanitizerIdempotent ==
    sanPhase = "twice" => sanAgain # Throw /\ sanAgain = sanOut

\* The enum fields of the only issue of a one-issue input that are missing or
\* not an allowed value come out as their documented defaults.
EnumDefaulted(raw, out, name, allowed, dflt) ==
    LET v == Get(raw, name)
    IN  (~Truthy(v) \/ (v.k = "str" /\ ToLowerCase(v.s) \notin allowed)) =>
            out.f[name] = Str(dflt)

OneIssueInput ==
    /\ sanIn.k = "obj"
    /\ "ux" \notin DOMAIN sanIn.f
    /\ IsArray(Get(sanIn, "issues"))
    /\ Len(Get(sanIn, "issues").a) = 1
    /\ IsObjectLike(Get(sanIn, "issues").a[1])

\* C7: the sanitizer never raises, and missing or invalid enum fields come
\* out as the documented defaults.
C7_SanitizerNeverRaises ==
    sanPhase # "input" =>
        /\ sanOut # Throw
        /\ OneIssueInput =>
             LET raw == Get(sanIn, "issues").a[1]
                 out == sanOut.f.issues.a[1]
             IN  /\ EnumDefaulted(raw, out, "category", allowedCategories, <<"clarity">>)
                 /\ EnumDefaulted(raw, out, "severity", allowedSeverity, <<"medium">>)
                 /\ EnumDefaulted(raw, out, "confidence", allowedConfidence, <<"medium">>)
                 /\ EnumDefaulted(raw, out, "sourceType", allowedSourceTypes, <<"ai_inferred">>)
                 /\ EnumDefaulted(raw, out, "priorityLabel", allowedPriorityLabels, <<"medium">>)

-----------------------------------------------------------------------------
(* The fallback review generator.  The audit input is a text of lines       *)
(* "KEY: value"; a value is a sequence of tokens, long texts being made of  *)
(* runs of 1, 10 and 100 characters ("x", "x10", "x100") laid out so that   *)
(* lengths and slice(0, 140) are exact.                                     *)

EvidenceChars == 140

CharLen(tok) ==
    CASE tok \in {" ", "x", ":"} -> 1
      [] tok = "||" -> 2
      [] tok = "x10" -> 10
      [] tok = "x100" -> 100
      [] tok \in {"None", "Home"} -> 4
      [] tok = "secure" -> 6
      [] tok = "Contact" -> 7
      [] tok = "TITLE" -> 5
      [] tok \in {"HEADINGS", "MAIN_TEXT"} -> 8
      [] tok = "BUTTONS" -> 7
      [] tok = "FORMS" -> 5
      [] OTHER -> 1

RECURSIVE StrLen(_)
StrLen(s) == IF s = <<>> THEN 0 ELSE CharLen(Head(s)) + StrLen(Tail(s))

\* s.slice(0, n), for texts whose n-th character ends a token
RECURSIVE Slice(_, _)
Slice(s, n) ==
    IF s = <<>> \/ CharLen(Head(s)) > n THEN <<>>
    ELSE <<Head(s)>> \o Slice(Tail(s), n - CharLen(Head(s)))

\* The text of a line as the regular expression sees it.
LineText(line) == <<line.key, ":", " ">> \o line.val

\* What `${key}:\s*(.*)` captures from the line at idx on: \s* runs over
\* white space and line ends, (.*) takes the rest of the line reached.
Captured(content, idx) ==
    IF Trim(content[idx].val) # <<>> THEN Trim(content[idx].val)
    ELSE IF idx = Len(content) THEN <<>>
    ELSE Trim(LineText(content[idx + 1]))

extractSection(content, key) ==
    IF \E i \in 1..Len(content) : content[i].key = key
    THEN Captured(content, CHOOSE i \in 1..Len(content) :
                              /\ content[i].key = key
                              /\ \A j \in 1..(i - 1) : content[j].key # key)
    ELSE <<>>

\* value.split("||")
RECURSIVE SplitPipes(_, _)
SplitPipes(s, part) ==
    IF s = <<>> THEN <<part>>
    ELSE IF Head(s) = "||" THEN <<part>> \o SplitPipes(Tail(s), <<>>)
    ELSE SplitPipes(Tail(s), Append(part, Head(s)))

splitPipeList(value) ==
    IF value = <<>> \/ value = <<"None">> THEN <<>>
    ELSE SelectSeq([i \in 1..Len(SplitPipes(value, <<>>)) |-> Trim(SplitPipes(value, <<>>)[i])],
                   LAMBDA part : part # <<>>)

NoEvidence == <<"No clear evidence found in extracted text.">>

\* The tail of extractEvidence, given extractSection's value.
EvidenceOf(value) ==
    IF value = <<>> \/ value = <<"None">> THEN NoEvidence ELSE Slice(value, EvidenceChars)

extractEvidence(content, key) == EvidenceOf(extractSection(content, key))

\* /(testimonial|reviews?|secure|privacy|trusted|guarantee|contact|about)/i
hasTrustCue(mainText) ==
    \E i \in 1..Len(mainText) :
        LowerTok(mainText[i]) \in {"testimonial", "review", "reviews", "secure", "privacy",
                                   "trusted", "guarantee", "contact", "about"}

HeadingsPoints(n) == IF n = 0 THEN -12 ELSE IF n <= 2 THEN 2 ELSE IF n <= 8 THEN 8 ELSE 4
ButtonsPoints(n) == IF n = 0 THEN -8 ELSE IF n <= 2 THEN 2 ELSE IF n <= 8 THEN 6 ELSE 3
FormsPoints(n) == IF n >= 1 /\ n <= 3 THEN 6 ELSE IF n > 3 THEN 3 ELSE 0
MainTextPoints(len) == IF len < 200 THEN -10 ELSE IF len <= 1200 THEN 8 ELSE 4

\* calculateFallbackScore from the extracted sections.
FallbackScoreOf(title, headings, buttons, forms, mainText) ==
    clampScore(Num(50
        + (IF title # <<>> /\ title # <<"None">> THEN 8 ELSE -10)
        + HeadingsPoints(Len(headings))
        + ButtonsPoints(Len(buttons))
        + FormsPoints(Len(forms))
        + MainTextPoints(StrLen(mainText))
        + (IF hasTrustCue(mainText) THEN 6 ELSE -4)))

calculateFallbackScore(content) ==
    FallbackScoreOf(extractSection(content, "TITLE"),
                    splitPipeList(extractSection(content, "HEADINGS")),
                    splitPipeList(extractSection(content, "BUTTONS")),
                    splitPipeList(extractSection(content, "FORMS")),
                    extractSection(content, "MAIN_TEXT"))

FallbackIssue(category, title, why, evidence, severity) ==
    Obj([category |-> W(category), title |-> W(title), why |-> W(why),
         evidence |-> Str(evidence), severity |-> W(severity)])

FallbackIssues(title, headings, buttons, forms, mainText) ==
    <<FallbackIssue("clarity", "Value proposition could be clearer above the fold",
                    "Users may not immediately understand what the product does.",
                    title, "high"),
      FallbackIssue("layout", "Content hierarchy is hard to scan",
                    "Heading structure may not guide users through key information.",
                    headings, "medium"),
      FallbackIssue("navigation", "Primary action emphasis is unclear",
                    "Multiple similar actions can increase decision friction.",
                    buttons, "medium"),
      FallbackIssue("accessibility", "Form fields may lack clear context",
                    "Ambiguous labels can reduce completion and accessibility.",
                    forms, "high"),
      FallbackIssue("trust", "Trust indicators are not prominent",
                    "Users look for signals like proof, policy clarity, and contact confidence.",
                    mainText, "medium"),
      FallbackIssue("clarity", "Copy appears dense in key sections",
                    "Long paragraphs can reduce comprehension and increase bounce.",
                    mainText, "low")>>

FallbackImprovements ==
    <<Obj([before |-> W("Generic headline and dense intro text"),
           after |-> W("Use a single-sentence value proposition with one supporting line.")]),
      Obj([before |-> W("Multiple competing actions"),
           after |-> W("Prioritize one primary CTA and de-emphasize secondary actions.")]),
      Obj([before |-> W("Forms with unclear context"),
           after |-> W("Add explicit labels, helper text, and clearer field intent.")])>>

\* issues.map(issue => ({ title, why, evidence, severity }))
AsFindings(issues) ==
    [i \in 1..Len(issues) |->
        Obj([title |-> issues[i].f.title, why |-> issues[i].f.why,
             evidence |-> issues[i].f.evidence, severity |-> issues[i].f.severity])]

\* score - offset taken as it is
SectionScoreUnclamped(value) == value

\* clampScore(score - offset) of a fallback section
SectionScore(value) == clampScore(value)

\* The object literal createFallbackReview returns.
FallbackObject(score, issues, top_improvements) ==
    Obj([score |-> score,
         issues |-> Arr(issues),
         top_improvements |-> Arr(top_improvements),
         ux |-> Obj([score |-> score, issues |-> Arr(issues),
                     top_improvements |-> Arr(top_improvements)]),
         accessibility |-> Obj([score |-> SectionScore(Minus(score, 8)),
                                findings |-> Arr(AsFindings(issues))]),
         seo |-> Obj([score |-> SectionScore(Minus(score, 6)),
                      findings |-> Arr(AsFindings(issues))]),
         visual |-> Obj([score |-> SectionScore(Minus(score, 5)),
                         findings |-> Arr(AsFindings(issues))])])

createFallbackReview(content) ==
    FallbackObject(calculateFallbackScore(content),
                   FallbackIssues(extractEvidence(content, "TITLE"),
                                  extractEvidence(content, "HEADINGS"),
                                  extractEvidence(content, "BUTTONS"),
                                  extractEvidence(content, "FORMS"),
                                  extractEvidence(content, "MAIN_TEXT")),
                   FallbackImprovements)

-----------------------------------------------------------------------------
(* Inputs of the fallback generator *)

\* More list items than the largest bucket edge (8), and a main text longer
\* than the largest length edge (1200).
ManyItems == 9
LongText == 1201

Line(key, val) == [key |-> key, val |-> val]

RECURSIVE Pipes(_)
Pipes(n) == IF n = 1 THEN <<"x">> ELSE <<"x", " ", "||", " ">> \o Pipes(n - 1)

TitleLines ==
    {<<>>, <<Line("TITLE", <<"Home">>)>>, <<Line("TITLE", <<"None">>)>>,
     <<Line("TITLE", <<" ">>)>>}

HeadingValues == {<<"None">>, Pipes(1), Pipes(3), Pipes(ManyItems)}
ButtonValues == {<<"None">>, Pipes(2), Pipes(ManyItems)}
FormValues == {<<"None">>, Pipes(1), Pipes(4)}

\* n characters in runs of 100, 10 and 1.
Runs(n) ==
    Repeat("x100", n \div 100) \o Repeat("x10", (n % 100) \div 10) \o Repeat("x", n % 10)

\* A text of n characters whose 140th character, if any, ends a token.
Text(n) == IF n >= 140 THEN Repeat("x10", 14) \o Runs(n - 140) ELSE Runs(n)

MainTextValues ==
    {Text(150),
     Text(199) \o <<"secure">>,
     Text(LongText),
     Text(139) \o <<" ">> \o Text(10) \o <<" ", "Contact">>}

FallbackInputs ==
    {t \o <<Line("HEADINGS", h), Line("BUTTONS", b), Line("FORMS", f), Line("MAIN_TEXT", m)>> :
        t \in TitleLines, h \in HeadingValues, b \in ButtonValues, f \in FormValues,
        m \in MainTextValues}

-----------------------------------------------------------------------------
(* The fallback generator applied to an audit input, and the sanitizer      *)
(* applied to its output                                                    *)

InitFallback ==
    /\ mode = "fallback"
    /\ IdleLib
    /\ fbIn \in FallbackInputs
    /\ fbOut = None
    /\ fbSan = None
    /\ fbPhase = "input"
    /\ IdleSanitize
    /\ IdleParse
    /\ IdlePipeline

GenerateFallback ==
    /\ mode = "fallback"
    /\ fbPhase = "input"
    /\ fbOut' = createFallbackReview(fbIn)
    /\ fbPhase' = "generated"
    /\ UNCHANGED <<mode, libVars, fbIn, fbSan, sanVars, parseVars, pipeVars>>

SanitizeFallback ==
    /\ mode = "fallback"
    /\ fbPhase = "generated"
    /\ fbSan' = sanitizeReview(fbOut)
    /\ fbPhase' = "sanitized"
    /\ UNCHANGED <<mode, libVars, fbIn, fbOut, sanVars, parseVars, pipeVars>>

NextFallback == GenerateFallback \/ SanitizeFallback

SpecFallback == InitFallback /\ [][NextFallback]_vars

C10_FallbackRoundTrips ==
    fbPhase = "sanitized" => fbSan = fbOut

-----------------------------------------------------------------------------
(* Reading the model's reply.  A reply text is a sequence of tokens: the    *)
(* code fences (three back-ticks, written "'''json" and "'''"), white       *)
(* space " ", the braces, the key "\"score\":", the scalars ("true" and the *)
(* number tokens, of which a text holds at most one in a row) and the prose *)
(* word "Here".                                                             *)

NumberTokens == {"90", "78"}

NumberValue(tok) == IF tok = "90" THEN 90 ELSE 78

ErrorOf(api, status, code, message) ==
    [api |-> api, status |-> status, code |-> code, message |-> message]

Raise(error) == [k |-> "throw", error |-> error]

IsThrow(v) == v.k = "throw"

\* What JSON.parse throws.
SyntaxError == Raise(ErrorOf(FALSE, 0, "", <<"Unexpected token">>))

\* throw new Error("Model response did not contain JSON.")
NoJsonError == Raise(ErrorOf(FALSE, 0, "", <<"Model response did not contain JSON.">>))

\* s.indexOf(tok), counted from 1; 0 when absent
IndexOf(s, tok) ==
    IF \E i \in 1..Len(s) : s[i] = tok
    THEN CHOOSE i \in 1..Len(s) : s[i] = tok /\ \A j \in 1..(i - 1) : s[j] # tok
    ELSE 0

\* s.lastIndexOf(tok), counted from 1; 0 when absent
LastIndexOf(s, tok) ==
    IF \E i \in 1..Len(s) : s[i] = tok
    THEN CHOOSE i \in 1..Len(s) : s[i] = tok /\ \A j \in (i + 1)..Len(s) : s[j] # tok
    ELSE 0

\* .replace(/^'''json\s*/i, "")
ReplaceJsonFence(s) ==
    IF s # <<>> /\ Head(s) = "'''json" THEN TrimLeft(Tail(s)) ELSE s

\* .replace(/^'''\s*/i, ""): of a leading "'''json" it takes the fence
\* and leaves the word.
ReplaceFence(s) ==
    IF s # <<>> /\ Head(s) = "'''" THEN TrimLeft(Tail(s))
    ELSE IF s # <<>> /\ Head(s) = "'''json" THEN <<"json">> \o Tail(s)
    ELSE s

\* .replace(/\s*'''$/, "")
ReplaceClosingFence(s) ==
    IF s # <<>> /\ s[Len(s)] = "'''" THEN TrimRight(SubSeq(s, 1, Len(s) - 1)) ELSE s

\* text.trim() alone
TrimOnly(text) == Trim(text)

\* const cleaned = text.trim().replace(...).replace(...).replace(...)
StripFences(text) == ReplaceClosingFence(ReplaceFence(ReplaceJsonFence(Trim(text))))

\* The brace cut of extractJsonCandidate, given cleaned.
BraceCut(cleaned) ==
    IF IndexOf(cleaned, "{") # 0 /\ LastIndexOf(cleaned, "}") # 0
       /\ LastIndexOf(cleaned, "}") > IndexOf(cleaned, "{")
    THEN SubSeq(cleaned, IndexOf(cleaned, "{"), LastIndexOf(cleaned, "}"))
    ELSE cleaned

extractJsonCandidate(text) == BraceCut(StripFences(text))

\* { "score": inner }
ScoreObject(inner) == IF IsThrow(inner) THEN SyntaxError ELSE Obj([score |-> inner])

\* JSON.parse of a text without white space.
RECURSIVE ParseTokens(_)
ParseTokens(t) ==
    IF Len(t) = 1 /\ t[1] = "true" THEN Bool(TRUE)
    ELSE IF Len(t) = 1 /\ t[1] \in NumberTokens THEN Num(NumberValue(t[1]))
    ELSE IF t = <<"{", "}">> THEN Obj(EmptyRec)
    ELSE IF Len(t) >= 4 /\ t[1] = "{" /\ t[2] = "\"score\":" /\ t[Len(t)] = "}"
    THEN ScoreObject(ParseTokens(SubSeq(t, 3, Len(t) - 1)))
    ELSE SyntaxError

\* JSON.parse: white space between tokens is insignificant.
JSONparse(s) == ParseTokens(SelectSeq(s, LAMBDA tok : tok # " "))

\* The catch block of parsePossiblyWrappedJson.
ParseBraceSpan(candidate) ==
    IF IndexOf(candidate, "{") = 0 \/ LastIndexOf(candidate, "}") = 0
       \/ LastIndexOf(candidate, "}") <= IndexOf(candidate, "{")
    THEN NoJsonError
    ELSE JSONparse(SubSeq(candidate, IndexOf(candidate, "{"), LastIndexOf(candidate, "}")))

\* parsePossiblyWrappedJson, given the candidate.
ParseCandidate(candidate) ==
    IF IsThrow(JSONparse(candidate)) THEN ParseBraceSpan(candidate) ELSE JSONparse(candidate)

parsePossiblyWrappedJson(text) == ParseCandidate(extractJsonCandidate(text))

-----------------------------------------------------------------------------
(* Reply texts, and the parser applied to one *)

MaxTextLen == 4

ReplyAlphabet == {"'''json", "'''", " ", "{", "}", "\"score\":", "true", "Here"}

RECURSIVE TextsOfLen(_)
TextsOfLen(n) ==
    IF n = 0 THEN {<<>>}
    ELSE {Append(s, tok) : s \in TextsOfLen(n - 1), tok \in ReplyAlphabet}

ParseInputs == UNION {TextsOfLen(n) : n \in 0..MaxTextLen}

InitParse ==
    /\ mode = "parse"
    /\ IdleLib
    /\ parseIn \in ParseInputs
    /\ parseOut = None
    /\ parsePhase = "input"
    /\ IdleSanitize
    /\ IdleFallback
    /\ IdlePipeline

ParseReply ==
    /\ mode = "parse"
    /\ parsePhase = "input"
    /\ parseOut' = parsePossiblyWrappedJson(parseIn)
    /\ parsePhase' = "parsed"
    /\ UNCHANGED <<mode, libVars, parseIn, sanVars, fbVars, pipeVars>>

NextParse == ParseReply

SpecParse == InitParse /\ [][NextParse]_vars

\* The text has a "{" somewhere before a "}".
HasBraceSpan(text) ==
    \E i, j \in 1..Len(text) : i < j /\ text[i] = "{" /\ text[j] = "}"

\* From the first "{" to the last "}" of a text that has such a span.
OuterSpan(text) ==
    SubSeq(text,
           CHOOSE i \in 1..Len(text) : text[i] = "{" /\ \A j \in 1..(i - 1) : text[j] # "{",
           CHOOSE i \in 1..Len(text) : text[i] = "}" /\ \A j \in (i + 1)..Len(text) : text[j] # "}")

NoSpace(s) == SelectSeq(s, LAMBDA tok : tok # " ")

\* The JSON texts of the alphabet, by nesting depth, white space left out.
JsonScalars == {<<"true">>}
JsonDepth0 == JsonScalars \cup {<<"{", "}">>}
JsonDepth1 == JsonDepth0 \cup {<<"{", "\"score\":">> \o v \o <<"}">> : v \in JsonDepth0}
JsonDepth2 == JsonDepth1 \cup {<<"{", "\"score\":">> \o v \o <<"}">> : v \in JsonDepth1}

\* A scalar inside the fences the three replacements take off.
FencedScalars ==
    {pre \o v \o post :
        pre \in {<<>>, <<"'''json">>, <<"'''">>, <<"'''json", "'''">>},
        v \in JsonScalars,
        post \in {<<>>, <<"'''">>}}

\* C8 (as the code has it): parsePossiblyWrappedJson throws exactly when the
\* candidate is not valid JSON.  A text with a {...} span throws (a
\* SyntaxError) iff the span from its first "{" to its last "}" is not
\* valid JSON; a text without such a span throws ("Model response did not
\* contain JSON.") unless what is left after the code fences are stripped
\* is itself valid JSON.
C8_ThrowsIffCandidateInvalid ==
    parsePhase = "parsed" =>
        IF HasBraceSpan(parseIn)
        THEN /\ IsThrow(parseOut) <=> NoSpace(OuterSpan(parseIn)) \notin JsonDepth2
             /\ IsThrow(parseOut) => parseOut = SyntaxError
        ELSE /\ IsThrow(parseOut) <=> NoSpace(parseIn) \notin FencedScalars
             /\ IsThrow(parseOut) => parseOut = NoJsonError

\* C8 witness: a reply with a {...} span that is not JSON was parsed, and
\* the parser threw.
C8_Witness ==
    /\ parsePhase = "parsed"
    /\ HasBraceSpan(parseIn)
    /\ parseOut = SyntaxError

\* C8 as stated: parsePossiblyWrappedJson throws when, and only when, the
\* text contains no {...} span.
C8_ThrowsIffNoBraceSpan ==
    parsePhase = "parsed" => (IsThrow(parseOut) <=> ~HasBraceSpan(parseIn))

-----------------------------------------------------------------------------
(* runUxAudit: the model call with its retry loop and quota fallback *)

MAX_RETRIES == 2
MAX_AUDIT_INPUT_CHARS == 5000
RETRYABLE_STATUS_CODES == {408, 409, 429, 500, 502, 503, 504}

\* message.includes(phrase), a phrase being one token of the message
Includes(message, phrase) == \E i \in 1..Len(message) : message[i] = phrase

\* error instanceof OpenAI.APIError && (error.status === 429 || ...)
isQuotaError(error) ==
    /\ error.api
    /\ \/ error.status = 429
       \/ error.code = "insufficient_quota"
       \/ Includes(error.message, "exceeded your current quota")

\* An absent status is 0 here, as error.status || 0 makes it.
isRetryableOpenAIError(error) ==
    IF error.api THEN error.status \in RETRYABLE_STATUS_CODES
    ELSE \/ Includes(error.message, "timeout")
         \/ Includes(error.message, "timed out")
         \/ Includes(error.message, "network")

\* shouldRetry with one attempt more than MAX_RETRIES allows
shouldRetryOnceMore(error, n) ==
    ~isQuotaError(error) /\ isRetryableOpenAIError(error) /\ n <= MAX_RETRIES

\* shouldRetry with the quota test left out
shouldRetryQuotaToo(error, n) == isRetryableOpenAIError(error) /\ n < MAX_RETRIES

shouldRetry(error, n) ==
    ~isQuotaError(error) /\ isRetryableOpenAIError(error) /\ n < MAX_RETRIES

RECURSIVE Pow2(_)
Pow2(n) == IF n = 0 THEN 1 ELSE 2 * Pow2(n - 1)

\* const waitMs = 300 * 2 ** attempt
waitMs(n) == 300 * Pow2(n)

\* The characters of a line, with the line end that follows it.
LineLen(line) == StrLen(LineText(line)) + 1

RECURSIVE ContentLen(_)
ContentLen(content) ==
    IF content = <<>> THEN 0 ELSE LineLen(Head(content)) + ContentLen(Tail(content))

\* content.slice(0, n): whole lines while they fit, then the start of the
\* next one (a line cut inside its key matches no section and is dropped).
RECURSIVE SliceContent(_, _)
SliceContent(content, n) ==
    IF content = <<>> THEN <<>>
    ELSE IF LineLen(Head(content)) <= n
    THEN <<Head(content)>> \o SliceContent(Tail(content), n - LineLen(Head(content)))
    ELSE IF CharLen(Head(content).key) + 2 <= n
    THEN <<Line(Head(content).key,
                Slice(Head(content).val, n - CharLen(Head(content).key) - 2))>>
    ELSE <<>>

\* trimAuditInput(content).value
trimAuditInput(content) ==
    IF ContentLen(content) <= MAX_AUDIT_INPUT_CHARS THEN content
    ELSE SliceContent(content, MAX_AUDIT_INPUT_CHARS)

\* throw new Error("Model returned an empty response.")
EmptyResponseError == Raise(ErrorOf(FALSE, 0, "", <<"Model returned an empty response.">>))

\* The TypeError of a conversion inside the sanitizer.
SanitizerTypeError == Raise(ErrorOf(FALSE, 0, "", <<"Cannot convert object to primitive value">>))

\* sanitizeReview(parsed), an exception of either call carried along
SanitizeParsed(parsed) ==
    IF IsThrow(parsed) THEN parsed
    ELSE IF sanitizeReview(parsed) = Throw THEN SanitizerTypeError
    ELSE sanitizeReview(parsed)

\* The try block after the model call returned: the Review, or what it throws.
ReadReply(text) ==
    IF text = <<>> THEN EmptyResponseError
    ELSE SanitizeParsed(parsePossiblyWrappedJson(text))

-----------------------------------------------------------------------------
(* calculateWebsiteHealthScore and the review table *)

MAX_HISTORY == 100
SCORE_DROP_WARNING == 10
SCORE_DROP_CRITICAL == 20

\* ux * 0.35 + performance * 0.30 + accessibility * 0.20 + seo * 0.15, in
\* hundredths
HealthHundredths(ux, performance, accessibility, seo) ==
    35 * ux + 30 * performance + 20 * accessibility + 15 * seo

\* Math.round(Math.max(0, Math.min(100, healthScore))).  The sum is taken in
\* binary floating point, so where it is a half exactly in the reals the
\* double may lie on either side of it: both roundings are outcomes.
RoundedHealth(hundredths) ==
    IF hundredths % 100 = 50
    THEN {Max(0, Min(100, hundredths \div 100)), Max(0, Min(100, hundredths \div 100 + 1))}
    ELSE {Max(0, Min(100, (hundredths + 50) \div 100))}

\* Inputs whose sum is a half in the reals, by what the double sum comes to:
\* 0.9 + 0.2 + 5.4 is 6.499999999999999 and 5.1 + 16.2 + 4.2 is
\* 25.499999999999996, while 10 * 0.35, 10 * 0.15 and 50 * 0.35 are 3.5,
\* 1.5 and 17.5.
DoubleBelowHalf == {<<0, 3, 1, 36>>, <<0, 17, 81, 28>>}
DoubleExactHalf == {<<10, 0, 0, 0>>, <<0, 0, 0, 10>>, <<50, 0, 0, 0>>}

\* The scores calculateWebsiteHealthScore can return: one score, except for
\* a half whose double sum is not listed above.
calculateWebsiteHealthScore(ux, performance, accessibility, seo) ==
    IF <<ux, performance, accessibility, seo>> \in DoubleBelowHalf
    THEN {Max(0, Min(100, HealthHundredths(ux, performance, accessibility, seo) \div 100))}
    ELSE IF <<ux, performance, accessibility, seo>> \in DoubleExactHalf
    THEN {Max(0, Min(100, HealthHundredths(ux, performance, accessibility, seo) \div 100 + 1))}
    ELSE RoundedHealth(HealthHundredths(ux, performance, accessibility, seo))

Row(url, score, health) == [url |-> url, score |-> score, websiteHealthScore |-> health]

\* findFirst({ where: { url }, orderBy: { createdAt: "desc" } })
RECURSIVE findFirst(_, _)
findFirst(rows, url) ==
    IF rows = <<>> THEN Null
    ELSE IF rows[Len(rows)].url = url THEN rows[Len(rows)]
    ELSE findFirst(SubSeq(rows, 1, Len(rows) - 1), url)

\* The rows left once all but the MAX_HISTORY newest are deleted.
keepLastFiveReviews(rows) ==
    IF Len(rows) > MAX_HISTORY THEN SubSeq(rows, Len(rows) - MAX_HISTORY + 1, Len(rows))
    ELSE rows

\* scoreDrop >= 10 || (healthScoreDrop && healthScoreDrop >= 10), with
\* healthScoreDrop = previous.websiteHealthScore && previous.websiteHealthScore - health
DropCallsAlert(previous, score, health) ==
    \/ previous.score.n - score >= 10
    \/ /\ Truthy(previous.websiteHealthScore)
       /\ previous.websiteHealthScore.n - health # 0
       /\ previous.websiteHealthScore.n - health >= 10

\* What sendScoreDropAlert hands to notifyChannels.
sendScoreDropAlert(url, oldScore, newScore) ==
    IF oldScore - newScore >= SCORE_DROP_CRITICAL \/ oldScore - newScore >= SCORE_DROP_WARNING
    THEN <<[type |-> "score_drop", url |-> url]>>
    ELSE <<>>

\* What sendAuditCompleteAlert hands to notifyChannels.
sendAuditCompleteAlert(url) == <<[type |-> "audit_complete", url |-> url]>>

-----------------------------------------------------------------------------
(* Inputs of the pipeline *)

MaxAnalyses == 2

Urls == {"a.example", "b.example"}
Sources == {"api.analyze", "scheduled.audit"}

\* A page within MAX_AUDIT_INPUT_CHARS and one beyond it.
Payloads ==
    {<<Line("TITLE", <<"Home">>), Line("HEADINGS", Pipes(3)), Line("BUTTONS", Pipes(2)),
       Line("FORMS", <<"None">>), Line("MAIN_TEXT", Text(199) \o <<"secure">>)>>,
     <<Line("TITLE", <<"Home">>), Line("MAIN_TEXT", Text(MAX_AUDIT_INPUT_CHARS)),
       Line("HEADINGS", Pipes(3))>>}

\* What the model call can reject with: quota exhaustion (429 with code
\* insufficient_quota), a 429 rate limit, a quota message under another
\* status, a 500, a 400, the client's own time-out (an APIError without a
\* status) and a network failure that is not an APIError.
CallErrors ==
    {ErrorOf(TRUE, 429, "insufficient_quota", <<"You", "exceeded your current quota">>),
     ErrorOf(TRUE, 429, "rate_limit_exceeded", <<"Rate limit reached">>),
     ErrorOf(TRUE, 403, "", <<"You", "exceeded your current quota">>),
     ErrorOf(TRUE, 500, "", <<"Internal server error">>),
     ErrorOf(TRUE, 400, "", <<"Bad request">>),
     ErrorOf(TRUE, 0, "", <<"Request", "timed out">>),
     ErrorOf(FALSE, 0, "", <<"network", "error">>)}

\* What the model can answer: nothing, a review, a fenced review, prose
\* around a review, and braces around prose.
ReplyTexts ==
    {<<>>,
     <<"{", "\"score\":", "90", "}">>,
     <<"'''json", " ", "{", "\"score\":", "78", "}", " ", "'''">>,
     <<"Here", " ", "{", "\"score\":", "78", "}">>,
     <<"{", "Here", "}">>}

PerformanceScores == {25, 85}


-----------------------------------------------------------------------------
(* analyzeAndSave, step by step *)

Init ==
    /\ mode = "pipeline"
    /\ IdleLib
    /\ envAllowFallback \in BOOLEAN
    /\ envApiKey \in BOOLEAN
    /\ store = <<>>
    /\ pc = "idle"
    /\ req = None
    /\ previousReview = Null
    /\ IdleAudit
    /\ websiteHealthScore = None
    /\ trace = <<>>
    /\ alerts = <<>>
    /\ analyses = 0
    /\ IdleSanitize
    /\ IdleFallback
    /\ IdleParse

MissingKeyError == ErrorOf(FALSE, 0, "", <<"LLM API key is missing.">>)

\* analyzeAndSave up to the first model call: the previous review is read,
\* the page extracted, and runUxAudit checks its API key.
AnalyzeStart(url, source, payload) ==
    /\ mode = "pipeline"
    /\ pc \in {"idle", "done", "failed"}
    /\ analyses < MaxAnalyses
    /\ analyses' = analyses + 1
    /\ req' = [url |-> url, source |-> source, payload |-> payload]
    /\ previousReview' = findFirst(store, url)
    /\ attempt' = 0
    /\ calls' = 0
    /\ sleeps' = <<>>
    /\ errors' = <<>>
    /\ review' = None
    /\ websiteHealthScore' = None
    /\ alerts' = <<>>
    /\ trace' = <<"previous", "extract">>
    /\ IF envApiKey
       THEN pc' = "audit" /\ auditVia' = "none" /\ thrown' = None
       ELSE pc' = "failed" /\ auditVia' = "threw" /\ thrown' = MissingKeyError
    /\ UNCHANGED <<mode, libVars, envVars, store, sanVars, fbVars, parseVars>>

\* The catch block of runUxAudit.
CatchAuditError(error) ==
    /\ errors' = Append(errors, error)
    /\ IF envAllowFallback /\ isQuotaError(error)
       THEN /\ review' = createFallbackReview(trimAuditInput(req.payload))
            /\ auditVia' = "fallback"
            /\ pc' = "performance"
            /\ trace' = trace \o <<"model call", "fallback">>
            /\ UNCHANGED <<attempt, sleeps, thrown>>
       ELSE IF shouldRetry(error, attempt)
       THEN /\ sleeps' = Append(sleeps, waitMs(attempt))
            /\ attempt' = attempt + 1
            /\ trace' = trace \o <<"model call", "sleep">>
            /\ UNCHANGED <<pc, review, auditVia, thrown>>
       ELSE /\ thrown' = error
            /\ auditVia' = "threw"
            /\ pc' = "failed"
            /\ trace' = trace \o <<"model call">>
            /\ UNCHANGED <<attempt, sleeps, review>>

\* The model call rejects.
ModelFails(error) ==
    /\ mode = "pipeline"
    /\ pc = "audit"
    /\ calls' = calls + 1
    /\ CatchAuditError(error)
    /\ UNCHANGED <<mode, libVars, envVars, store, req, previousReview, websiteHealthScore, alerts, analyses,
                   sanVars, fbVars, parseVars>>

\* The rest of the try block, given what reading the reply came to.
ReplyRead(outcome) ==
    IF IsThrow(outcome) THEN CatchAuditError(outcome.error)
    ELSE /\ review' = outcome
         /\ auditVia' = "model"
         /\ pc' = "performance"
         /\ trace' = trace \o <<"model call", "sanitize">>
         /\ UNCHANGED <<attempt, sleeps, errors, thrown>>

\* The model call resolves with a reply.
ModelReplies(text) ==
    /\ mode = "pipeline"
    /\ pc = "audit"
    /\ calls' = calls + 1
    /\ ReplyRead(ReadReply(text))
    /\ UNCHANGED <<mode, libVars, envVars, store, req, previousReview, websiteHealthScore, alerts, analyses,
                   sanVars, fbVars, parseVars>>

\* getPerformanceReport resolves and the health score is composed.
ComposeHealth(performance) ==
    /\ mode = "pipeline"
    /\ pc = "performance"
    /\ websiteHealthScore' \in
          calculateWebsiteHealthScore(review.f.score.n, performance,
                                      review.f.accessibility.f.score.n, review.f.seo.f.score.n)
    /\ pc' = "save"
    /\ trace' = trace \o <<"performance", "health">>
    /\ UNCHANGED <<mode, libVars, envVars, store, req, previousReview, auditVars, alerts, analyses,
                   sanVars, fbVars, parseVars>>

\* prisma.review.create, then keepLastFiveReviews.
SaveReview ==
    /\ mode = "pipeline"
    /\ pc = "save"
    /\ store' = keepLastFiveReviews(
                    Append(store, Row(req.url, review.f.score, Num(websiteHealthScore))))
    /\ pc' = "alert"
    /\ trace' = trace \o <<"persist", "prune">>
    /\ UNCHANGED <<mode, libVars, envVars, req, previousReview, auditVars, websiteHealthScore, alerts,
                   analyses, sanVars, fbVars, parseVars>>

\* The score-drop check and the audit-complete alert; analyzeAndSave returns.
SendAlerts ==
    /\ mode = "pipeline"
    /\ pc = "alert"
    /\ alerts' =
          (IF previousReview # Null
              /\ DropCallsAlert(previousReview, review.f.score.n, websiteHealthScore)
           THEN sendScoreDropAlert(req.url, previousReview.score.n, review.f.score.n)
           ELSE <<>>)
          \o (IF req.source = "scheduled.audit" THEN sendAuditCompleteAlert(req.url) ELSE <<>>)
    /\ pc' = "done"
    /\ trace' = trace \o <<"alerts">>
    /\ UNCHANGED <<mode, libVars, envVars, store, req, previousReview, auditVars, websiteHealthScore,
                   analyses, sanVars, fbVars, parseVars>>

Next ==
    \/ \E url \in Urls, source \in Sources, payload \in Payloads :
          AnalyzeStart(url, source, payload)
    \/ \E error \in CallErrors : ModelFails(error)
    \/ \E text \in ReplyTexts : ModelReplies(text)
    \/ \E performance \in PerformanceScores : ComposeHealth(performance)
    \/ SaveReview
    \/ SendAlerts

Spec == Init /\ [][Next]_vars

-----------------------------------------------------------------------------
(* Properties of the pipeline *)

\* Quota exhaustion as the provider reports it.
QuotaExhausted(error) ==
    /\ error.api
    /\ \/ error.code = "insufficient_quota"
       \/ Includes(error.message, "exceeded your current quota")

\* A time-out, a network error, a 5xx or a 429 that is a rate limit.
TransientFailure(error) ==
    \/ error.api /\ error.status \in 500..599
    \/ error.api /\ error.status = 429 /\ ~QuotaExhausted(error)
    \/ Includes(error.message, "timed out")
    \/ Includes(error.message, "timeout")
    \/ Includes(error.message, "network")

\* C1 (as the code has it): a quota-exhaustion error ends the audit at the
\* attempt where it occurs, with no further model call and no sleep after
\* it; runUxAudit then returns the fallback generator's Review of the
\* trimmed payload, unless ALLOW_LLM_FALLBACK is "false", in which case it
\* rethrows the quota error.
C1_QuotaEndsTheAudit ==
    \A i \in 1..Len(errors) :
        QuotaExhausted(errors[i]) =>
            /\ i = Len(errors)
            /\ calls = i
            /\ Len(sleeps) = i - 1
            /\ pc # "audit"
            /\ IF envAllowFallback
               THEN /\ auditVia = "fallback"
                    /\ review = createFallbackReview(trimAuditInput(req.payload))
                    /\ thrown = None
               ELSE /\ auditVia = "threw"
                    /\ thrown = errors[i]
                    /\ review = None

\* C1 witness: the quota error came at the second attempt, after one retry,
\* and the audit returned the fallback Review.
C1_Witness ==
    /\ Len(errors) = 2
    /\ QuotaExhausted(errors[2])
    /\ calls = 2
    /\ sleeps = <<300>>
    /\ auditVia = "fallback"

\* C1 as stated: after a quota-exhaustion error no further model call is
\* made and runUxAudit returns the fallback Review instead of throwing.
C1_QuotaAlwaysFallsBack ==
    \A i \in 1..Len(errors) :
        QuotaExhausted(errors[i]) => calls = i /\ auditVia = "fallback" /\ thrown = None

\* C2: a transient failure (time-out, network error, 5xx, 429 rate limit) is
\* retried after a delay of 300 * 2^attempt ms, up to MAX_RETRIES retries;
\* at the last attempt it propagates to the caller.
C2_TransientRetried ==
    pc # "audit" =>
        \A i \in 1..Len(errors) :
            TransientFailure(errors[i]) =>
                IF i <= MAX_RETRIES
                THEN calls > i /\ Len(sleeps) >= i /\ sleeps[i] = waitMs(i - 1)
                ELSE auditVia = "threw" /\ thrown = errors[i]

\* C3: every Review that is persisted went through issue enrichment after
\* the sanitizer (or the fallback generator) and before the health score.
C3_EnrichedBeforeHealth ==
    pc \in {"alert", "done"} =>
        \E i, j, k \in 1..Len(trace) :
            /\ i < j /\ j < k
            /\ trace[i] \in {"sanitize", "fallback"}
            /\ trace[j] = "enrich"
            /\ trace[k] = "health"

\* C4: between two consecutive audits of a URL a score-drop alert reaches
\* the channels exactly when the overall score or the health score dropped
\* by 10 or more.
C4_ScoreDropAlert ==
    pc = "done" /\ previousReview # Null =>
        ((\E i \in 1..Len(alerts) : alerts[i].type = "score_drop")
         <=> \/ previousReview.score.n - review.f.score.n >= 10
             \/ /\ previousReview.websiteHealthScore.k = "num"
                /\ previousReview.websiteHealthScore.n - websiteHealthScore >= 10)

-----------------------------------------------------------------------------
(* Finding enrichment (audit-intelligence.ts) *)

\* A number that is neither whole nor a half: num / den, den > 0.
Frac(num, den) == [k |-> "frac", num |-> num, den |-> den]

\* severityImpact[severity]
severityImpact(severity) ==
    CASE severity = Str(<<"high">>) -> Num(90)
      [] severity = Str(<<"medium">>) -> Num(65)
      [] severity = Str(<<"low">>) -> Num(40)
      [] OTHER -> Undef

\* toNumber that never looks at the value it is given.
toNumberFallbackOnly(value, fallback) == fallback

\* Number(value) when that is finite, else the fallback.
toNumber(value, fallback) ==
    IF IsFinite(ToNumber(value)) THEN ToNumber(value) ELSE fallback

\* Math.max(0, Math.min(100, Math.round(value))); Math.round is
\* floor(value + 1/2).
clamp(value) ==
    CASE value.k = "num" -> Num(Max(0, Min(100, MathRound(value).n)))
      [] value.k = "frac" ->
            Num(Max(0, Min(100, (2 * value.num + value.den) \div (2 * value.den))))
      [] OTHER -> NaN

\* regex.test(text): the tokens of the vocabulary in which the pattern
\* finds a match are listed per pattern.
Matches(text, tokens) == \E i \in 1..Len(text) : text[i] \in tokens

\* `${a} ${b}`
Template(a, b) == ToStr(a).s \o <<" ">> \o ToStr(b).s

\* /(#|\.|\[|aria-|role=|<\w+)/
SelectorTokens == {"#", ".", "[", "aria-label", "role=button", "<img"}
\* /(might|may|likely|appears|seems|could)/
HedgeTokens == {"might", "may", "likely", "appears", "seems", "could"}
\* /\d/
DigitTokens == {"7", "h1"}
\* /(rename|update copy|alt text|label|contrast|heading|h1|aria-label|button text|link text)/
SmallFixTokens == {"rename", "update copy", "alt text", "label", "contrast", "heading", "h1",
                   "aria-label", "button text", "link text"}
\* /(spacing|alignment|responsive|layout|navigation|hierarchy|form flow)/
LayoutFixTokens == {"spacing", "alignment", "responsive", "layout", "navigation", "hierarchy",
                    "form flow"}
\* /(re-architect|rewrite|major redesign|information architecture|checkout flow|auth flow)/
RebuildTokens == {"re-architect", "rewrite", "major redesign", "information architecture",
                  "checkout flow", "auth flow"}

inferSourceType(evidence, why) ==
    IF Matches(ToLowerCase(Template(evidence, why)), SelectorTokens) THEN Str(<<"deterministic">>)
    ELSE IF Matches(ToLowerCase(Template(evidence, why)), HedgeTokens) THEN Str(<<"heuristic">>)
    ELSE Str(<<"ai_inferred">>)

\* clamp(min(70, length * 0.8) + sourceBoost + numericBoost), in tenths
estimateEvidenceWeight(evidence, sourceType) ==
    clamp(Frac(Min(700, 8 * StrLen(Trim(evidence.s)))
               + 10 * (CASE sourceType = Str(<<"deterministic">>) -> 25
                         [] sourceType = Str(<<"heuristic">>) -> 10
                         [] OTHER -> 0)
               + 10 * (IF Matches(evidence.s, DigitTokens) THEN 8 ELSE 0),
               10))

inferEffortScore(title, why) ==
    IF Matches(ToLowerCase(Template(title, why)), SmallFixTokens) THEN Num(25)
    ELSE IF Matches(ToLowerCase(Template(title, why)), LayoutFixTokens) THEN Num(50)
    ELSE IF Matches(ToLowerCase(Template(title, why)), RebuildTokens) THEN Num(80)
    ELSE Num(45)

inferFixSnippet(category, title) ==
    IF Matches(ToLowerCase(Template(category, title)), {"contrast", "button"})
    THEN W(".button-primary { ... }")
    ELSE IF Matches(ToLowerCase(Template(category, title)), {"alt", "image", "hero"})
    THEN W("<img src alt />")
    ELSE IF Matches(ToLowerCase(Template(category, title)), {"h1", "heading", "title"})
    THEN W("<h1>...</h1>")
    ELSE IF Matches(ToLowerCase(Template(category, title)), {"form", "label", "input"})
    THEN W("<label for /><input />")
    ELSE Undef

\* inferPriorityLabel with the priorityScore bands looked at before the
\* quick win.
inferPriorityLabelScoreFirst(priorityScore, impact, effort) ==
    IF priorityScore >= 70 THEN "critical"
    ELSE IF impact >= 65 /\ effort <= 35 THEN "quick_win"
    ELSE IF priorityScore >= 55 THEN "high"
    ELSE IF priorityScore >= 40 THEN "medium"
    ELSE "low"

inferPriorityLabel(priorityScore, impact, effort) ==
    IF impact >= 65 /\ effort <= 35 THEN "quick_win"
    ELSE IF priorityScore >= 70 THEN "critical"
    ELSE IF priorityScore >= 55 THEN "high"
    ELSE IF priorityScore >= 40 THEN "medium"
    ELSE "low"

\* The confidence enrichFinding settles on.
ConfidenceOf(item, sourceType, evidenceWeight) ==
    IF Truthy(Get(item, "confidence")) THEN Get(item, "confidence")
    ELSE IF sourceType = Str(<<"deterministic">>) /\ evidenceWeight.n >= 75 THEN Str(<<"high">>)
    ELSE IF evidenceWeight.n < 45 \/ sourceType = Str(<<"ai_inferred">>) THEN Str(<<"low">>)
    ELSE Str(<<"medium">>)

\* The object literal enrichFinding returns: the item's own properties with
\* the eight intelligence properties written over them.
EnrichedItem(item, sourceType, evidenceWeight, impactScore, effortScore, priorityScore) ==
    Obj([confidence |-> ConfidenceOf(item, sourceType, evidenceWeight),
         evidenceWeight |-> evidenceWeight,
         sourceType |-> sourceType,
         impactScore |-> impactScore,
         effortScore |-> effortScore,
         priorityScore |-> priorityScore,
         priorityLabel |->
             OrElse(Get(item, "priorityLabel"),
                    Str(<<inferPriorityLabel(priorityScore.n, impactScore.n, effortScore.n)>>)),
         fixSnippet |->
             OrElse(Get(item, "fixSnippet"),
                    inferFixSnippet(OrElse(Get(item, "category"), Str(<<>>)), Get(item, "title")))]
        @@ item.f)

\* enrichFinding once impactScore and effortScore are known.
EnrichScored(item, sourceType, evidenceWeight, impactScore, effortScore) ==
    EnrichedItem(item, sourceType, evidenceWeight, impactScore, effortScore,
                 clamp(toNumber(Get(item, "priorityScore"),
                                Frac(impactScore.n * (110 - effortScore.n), 100))))

\* enrichFinding once sourceType is known.
EnrichSourced(item, sourceType) ==
    EnrichScored(item, sourceType,
                 clamp(toNumber(Get(item, "evidenceWeight"),
                                estimateEvidenceWeight(OrElse(Get(item, "evidence"), Str(<<>>)),
                                                       sourceType))),
                 clamp(toNumber(Get(item, "impactScore"),
                                Coalesce(severityImpact(Get(item, "severity")), Num(55)))),
                 clamp(toNumber(Get(item, "effortScore"),
                                inferEffortScore(Get(item, "title"), Get(item, "why")))))

enrichFinding(item) ==
    EnrichSourced(item,
                  OrElse(Get(item, "sourceType"),
                         inferSourceType(OrElse(Get(item, "evidence"), Str(<<>>)),
                                         OrElse(Get(item, "why"), Str(<<>>)))))

-----------------------------------------------------------------------------
(* Inputs of the enrichment *)

\* The base fields of an issue (with category) or of a finding (without).
EnrichTexts ==
    {[category |-> Str(<<"accessibility">>),
      title |-> Str(<<"Low", " ", "contrast">>),
      why |-> Str(<<"Text", " ", "might", " ", "fail">>),
      evidence |-> Str(<<"#", "x10">>)],
     [category |-> Undef,
      title |-> Str(<<"Nav">>),
      why |-> Str(<<"It", " ", "seems", " ", "crowded">>),
      evidence |-> Str(<<>>)],
     [category |-> Str(<<"layout">>),
      title |-> Str(<<"hero", " ", "layout">>),
      why |-> Str(<<"rewrite">>),
      evidence |-> Str(<<"x100", " ", "7">>)],
     [category |-> Str(<<"trust">>),
      title |-> Str(<<"Checkout">>),
      why |-> Str(<<"major redesign">>),
      evidence |-> Str(<<"x100", ".">>)]}

\* Each intelligence field is absent or holds a value of its type: a member
\* of its enumeration, a whole score within 0..100, a non-empty snippet.
EnrichItems ==
    {Obj(DropUndef(text @@ intel)) :
        text \in EnrichTexts,
        intel \in [severity : {Undef, Str(<<"high">>), Str(<<"medium">>), Str(<<"low">>)},
                   sourceType : {Undef, Str(<<"heuristic">>), Str(<<"deterministic">>)},
                   evidenceWeight : {Undef, Num(0), Num(80)},
                   confidence : {Undef, Str(<<"high">>)},
                   impactScore : {Undef, Num(0), Num(90)},
                   effortScore : {Undef, Num(30), Num(100)},
                   priorityScore : {Undef, Num(0), Num(77)},
                   priorityLabel : {Undef, Str(<<"low">>)},
                   fixSnippet : {Undef, W("<nav aria-label />")}]}

InitEnrich ==
    /\ mode = "enrich"
    /\ enIn \in EnrichItems
    /\ enOut = None
    /\ enAgain = None
    /\ enSan = None
    /\ enPiped = None
    /\ enPhase = "input"
    /\ IdleNotEnrich

EnrichOnce ==
    /\ mode = "enrich"
    /\ enPhase = "input"
    /\ enOut' = enrichFinding(enIn)
    /\ enPhase' = "once"
    /\ UNCHANGED <<mode, notEnVars, enIn, enAgain, enSan, enPiped>>

EnrichAgain ==
    /\ mode = "enrich"
    /\ enPhase = "once"
    /\ enAgain' = enrichFinding(enOut)
    /\ enPhase' = "twice"
    /\ UNCHANGED <<mode, notEnVars, enIn, enOut, enSan, enPiped>>

\* The sanitizer's normalizer for the item: normalizeIssue for an issue,
\* normalizeFinding for a section finding.
SanitizeItem ==
    /\ mode = "enrich"
    /\ enPhase = "input"
    /\ enSan' = IF "category" \in DOMAIN enIn.f THEN normalizeIssue(enIn)
                ELSE normalizeFinding(enIn)
    /\ enPhase' = "sanitized"
    /\ UNCHANGED <<mode, notEnVars, enIn, enOut, enAgain, enPiped>>

EnrichSanitized ==
    /\ mode = "enrich"
    /\ enPhase = "sanitized"
    /\ enPiped' = enrichFinding(enSan)
    /\ enPhase' = "piped"
    /\ UNCHANGED <<mode, notEnVars, enIn, enOut, enAgain, enSan>>

NextEnrich == EnrichOnce \/ EnrichAgain \/ SanitizeItem \/ EnrichSanitized

SpecEnrich == InitEnrich /\ [][NextEnrich]_vars

-----------------------------------------------------------------------------
(* Properties of the enrichment *)

IntelligenceFields ==
    {"confidence", "evidenceWeight", "sourceType", "impactScore", "effortScore",
     "priorityScore", "priorityLabel", "fixSnippet"}

\* after has every property before has with the same value, and nothing
\* beyond them but intelligence fields.
OnlyFills(before, after) ==
    /\ \A name \in DOMAIN before.f : after.f[name] = before.f[name]
    /\ DOMAIN after.f = DOMAIN before.f \cup IntelligenceFields

C12_PriorityFromImpactEffort ==
    enPhase = "piped" /\ "priorityScore" \notin DOMAIN enIn.f =>
        enPiped.f.priorityScore.n =
            Max(0, Min(100, (enPiped.f.impactScore.n * (110 - enPiped.f.effortScore.n) + 50)
                            \div 100))

-----------------------------------------------------------------------------
(* The audit diff (audit-intelligence.ts) *)

MaxDiffTitles == 8

\* White space as the regular expression \s sees it.
IsSpace(tok) == tok \in {" ", "  ", "\t"}

\* value.replace(/\s+/g, " ")
RECURSIVE CollapseSpaces(_)
CollapseSpaces(s) ==
    IF s = <<>> THEN <<>>
    ELSE IF IsSpace(Head(s))
         THEN IF Len(s) > 1 /\ IsSpace(s[2]) THEN CollapseSpaces(Tail(s))
              ELSE <<" ">> \o CollapseSpaces(Tail(s))
    ELSE <<Head(s)>> \o CollapseSpaces(Tail(s))

\* value.toLowerCase().replace(/\s+/g, " ").trim()
normalizeTitle(value) == Trim(CollapseSpaces(ToLowerCase(value)))

\* A key that leaves the category out.
toKeyTitleOnly(issue) == normalizeTitle(ToStr(Get(issue, "title")).s)

\* `${issue.category}|${normalizeTitle(issue.title)}`
toKey(issue) ==
    ToStr(Get(issue, "category")).s \o <<"|">> \o normalizeTitle(ToStr(Get(issue, "title")).s)

\* new Set(issues.map(toKey))
KeySet(issues) == {toKey(issues[i]) : i \in 1..Len(issues)}

\* issues.map(title).slice(0, 8), with no filter before it.
TitlesUnfiltered(issues, keys) ==
    [i \in 1..Min(MaxDiffTitles, Len(issues)) |-> Get(issues[i], "title")]

\* issues.filter(issue => !keys.has(toKey(issue))).map(title).slice(0, 8)
TitlesNotIn(issues, keys) ==
    [i \in 1..Min(MaxDiffTitles,
                  Len(SelectSeq(issues, LAMBDA issue : toKey(issue) \notin keys))) |->
        Get(SelectSeq(issues, LAMBDA issue : toKey(issue) \notin keys)[i], "title")]

\* report?.performance?.metrics, or [] when any link is missing
MetricsOf(report) == ListOf(Get(Get(report, "performance"), "metrics"))

\* extractMetric: the displayValue of the first metric with that id, or null
extractMetric(report, metricId) ==
    IF \E i \in 1..Len(MetricsOf(report)) : Get(MetricsOf(report)[i], "id") = W(metricId)
    THEN OrElse(Get(MetricsOf(report)[CHOOSE i \in 1..Len(MetricsOf(report)) :
                        /\ Get(MetricsOf(report)[i], "id") = W(metricId)
                        /\ \A j \in 1..(i - 1) : Get(MetricsOf(report)[j], "id") # W(metricId)],
                    "displayValue"),
                Null)
    ELSE Null

\* The numerals of the display values, in thousandths.
Thousandths(tok) ==
    CASE tok = "2.4" -> 2400
      [] tok = "1.1" -> 1100
      [] tok = "0.02" -> 20
      [] tok = "0.3" -> 300
      [] tok = "850" -> 850000
      [] OTHER -> -1

\* parseTimeToSeconds, in thousandths of a second: the first numeral of the
\* text, divided by 1000 when the text contains "ms"; null without numeral.
parseTimeToSeconds(value) ==
    IF ~\E i \in 1..Len(value) : Thousandths(value[i]) >= 0 THEN Null
    ELSE IF Matches(value, {"ms"})
    THEN Frac(Thousandths(value[CHOOSE i \in 1..Len(value) :
                    /\ Thousandths(value[i]) >= 0
                    /\ \A j \in 1..(i - 1) : Thousandths(value[j]) < 0]) \div 1000, 1000)
    ELSE Frac(Thousandths(value[CHOOSE i \in 1..Len(value) :
                    /\ Thousandths(value[i]) >= 0
                    /\ \A j \in 1..(i - 1) : Thousandths(value[j]) < 0]), 1000)

\* The status of one metric, given both parsed values.
MetricStatus(id, beforeNumber, afterNumber) ==
    IF beforeNumber = Null \/ afterNumber = Null THEN "stable"
    ELSE IF afterNumber.num < beforeNumber.num
                - (IF id = "cumulative-layout-shift" THEN 30 ELSE 150)
    THEN "improved"
    ELSE IF afterNumber.num > beforeNumber.num
                + (IF id = "cumulative-layout-shift" THEN 30 ELSE 150)
    THEN "regressed"
    ELSE "stable"

\* One entry of metricHighlights, or null when either side has no value.
MetricHighlight(id, label, before, after) ==
    IF ~Truthy(before) \/ ~Truthy(after) THEN Null
    ELSE Obj([metric |-> W(label), before |-> before, after |-> after,
              status |-> W(MetricStatus(id, parseTimeToSeconds(before.s),
                                        parseTimeToSeconds(after.s)))])

metricIds ==
    <<[id |-> "largest-contentful-paint", label |-> "LCP"],
      [id |-> "first-contentful-paint", label |-> "FCP"],
      [id |-> "cumulative-layout-shift", label |-> "CLS"]>>

metricHighlights(previousPerformance, currentPerformance) ==
    Kept([i \in 1..Len(metricIds) |->
            MetricHighlight(metricIds[i].id, metricIds[i].label,
                            extractMetric(previousPerformance, metricIds[i].id),
                            extractMetric(currentPerformance, metricIds[i].id))])

\* A health delta that reads a missing health score as 0.
HealthDeltaZeroFilled(previousHealthScore, currentHealthScore) ==
    Num(Coalesce(currentHealthScore, Num(0)).n - Coalesce(previousHealthScore, Num(0)).n)

\* previous !== null && current !== null ? current - previous : null
HealthDelta(previousHealthScore, currentHealthScore) ==
    IF previousHealthScore # Null /\ currentHealthScore # Null
    THEN Num(currentHealthScore.n - previousHealthScore.n)
    ELSE Null

\* review.issues || []
IssuesOf(r) == ListOf(OrElse(Get(r, "issues"), Arr(<<>>)))

SectionDelta(params, section) ==
    Num(Get(Get(params.currentReview, section), "score").n
        - Get(Get(params.previousReview, section), "score").n)

\* The optional dates are left out: toISOString of an absent date is
\* undefined and the property is dropped.
buildAuditDiff(params) ==
    IF ~Truthy(params.previousReview) \/ params.previousScore = Null THEN Null
    ELSE Obj([scoreDelta |-> Num(params.currentScore.n - params.previousScore.n),
              healthDelta |-> HealthDelta(params.previousHealthScore, params.currentHealthScore),
              accessibilityDelta |-> SectionDelta(params, "accessibility"),
              seoDelta |-> SectionDelta(params, "seo"),
              visualDelta |-> SectionDelta(params, "visual"),
              previousIssueCount |-> Num(Len(IssuesOf(params.previousReview))),
              currentIssueCount |-> Num(Len(IssuesOf(params.currentReview))),
              newIssues |-> Arr(TitlesNotIn(IssuesOf(params.currentReview),
                                            KeySet(IssuesOf(params.previousReview)))),
              resolvedIssues |-> Arr(TitlesNotIn(IssuesOf(params.previousReview),
                                                 KeySet(IssuesOf(params.currentReview)))),
              metricHighlights |-> Arr(metricHighlights(params.previousPerformance,
                                                        params.currentPerformance))])

-----------------------------------------------------------------------------
(* Inputs of the audit diff *)

ManyIssues == 9

DiffIssue(category, title) == Obj([category |-> W(category), title |-> Str(title)])

\* One issue; the same title under another category; the same issue with
\* its title in another case and spacing; a different issue; more issues
\* than a diff lists.
DiffIssueLists ==
    {<<>>,
     <<DiffIssue("layout", <<"Nav", " ", "bar">>)>>,
     <<DiffIssue("trust", <<"Nav", " ", "bar">>)>>,
     <<DiffIssue("layout", <<"nav", "  ", "bar", " ">>), DiffIssue("clarity", <<"Hero">>)>>,
     [i \in 1..ManyIssues |-> DiffIssue("clarity", <<"Issue", " ", ToString(i)>>)]}

DiffReview(issues, accessibility) ==
    Obj([issues |-> Arr(issues),
         accessibility |-> Obj([score |-> Num(accessibility)]),
         seo |-> Obj([score |-> Num(accessibility - 6)]),
         visual |-> Obj([score |-> Num(100 - accessibility)])])

DiffReviews == {DiffReview(issues, accessibility) : issues \in DiffIssueLists,
                                                   accessibility \in {40, 82}}

Metric(id, displayValue) == Obj([id |-> W(id), displayValue |-> Str(displayValue)])

PerformanceOf(metrics) == Obj([performance |-> Obj([metrics |-> Arr(metrics)])])

FastReport ==
    PerformanceOf(<<Metric("largest-contentful-paint", <<"1.1", " ", "s">>),
                    Metric("first-contentful-paint", <<"850", " ", "ms">>),
                    Metric("cumulative-layout-shift", <<"0.02">>)>>)

SlowReport ==
    PerformanceOf(<<Metric("largest-contentful-paint", <<"2.4", " ", "s">>),
                    Metric("first-contentful-paint", <<"1.1", " ", "s">>),
                    Metric("cumulative-layout-shift", <<"0.3">>),
                    Metric("speed-index", <<"n/a">>)>>)

\* previousPerformance and currentPerformance
PerformancePairs == {<<Null, FastReport>>, <<FastReport, FastReport>>,
                     <<SlowReport, FastReport>>, <<FastReport, SlowReport>>}

DiffParams ==
    {[previousReview |-> previous,
      currentReview |-> current,
      previousScore |-> previousScore,
      currentScore |-> currentScore,
      previousHealthScore |-> previousHealth,
      currentHealthScore |-> currentHealth,
      previousPerformance |-> pair[1],
      currentPerformance |-> pair[2]] :
        previous \in DiffReviews \cup {Null},
        current \in DiffReviews,
        previousScore \in {Null, Num(0), Num(85)},
        currentScore \in {Num(0), Num(85)},
        previousHealth \in {Null, Num(0), Num(80)},
        currentHealth \in {Null, Num(0), Num(80)},
        pair \in PerformancePairs}

\* The same comparison with previous and current exchanged.
Reversed(params) ==
    [previousReview |-> params.currentReview,
     currentReview |-> params.previousReview,
     previousScore |-> params.currentScore,
     currentScore |-> params.previousScore,
     previousHealthScore |-> params.currentHealthScore,
     currentHealthScore |-> params.previousHealthScore,
     previousPerformance |-> params.currentPerformance,
     currentPerformance |-> params.previousPerformance]

InitDiff ==
    /\ mode = "diff"
    /\ dfParams \in DiffParams
    /\ dfOut = None
    /\ dfBack = None
    /\ dfPhase = "input"
    /\ IdleNotDiff

BuildDiff ==
    /\ mode = "diff"
    /\ dfPhase = "input"
    /\ dfOut' = buildAuditDiff(dfParams)
    /\ dfPhase' = "built"
    /\ UNCHANGED <<mode, notDfVars, dfParams, dfBack>>

\* The diff in the other direction, when there is an audit on both sides.
BuildReverseDiff ==
    /\ mode = "diff"
    /\ dfPhase = "built"
    /\ dfParams.previousReview # Null
    /\ dfParams.previousScore # Null
    /\ dfBack' = buildAuditDiff(Reversed(dfParams))
    /\ dfPhase' = "both"
    /\ UNCHANGED <<mode, notDfVars, dfParams, dfOut>>

NextDiff == BuildDiff \/ BuildReverseDiff

SpecDiff == InitDiff /\ [][NextDiff]_vars

-----------------------------------------------------------------------------
(* Properties of the audit diff *)

\* The audit is compared with itself: one Review, one score, one health
\* score (which the audit has), one performance report.
SelfComparison ==
    /\ dfParams.previousReview = dfParams.currentReview
    /\ dfParams.previousScore = dfParams.currentScore
    /\ dfParams.previousHealthScore = dfParams.currentHealthScore
    /\ dfParams.currentHealthScore # Null
    /\ dfParams.previousPerformance = dfParams.currentPerformance

IssueIdentity(issue) == <<Get(issue, "category"), normalizeTitle(Get(issue, "title").s)>>

Identities(issues) == {IssueIdentity(issues[i]) : i \in 1..Len(issues)}

\* The titles, in order and at most 8, of the issues of list whose identity
\* does not occur in other.
TitlesMissingFrom(list, other) ==
    LET missing == SelectSeq(list, LAMBDA issue : IssueIdentity(issue) \notin Identities(other))
    IN  [i \in 1..Min(8, Len(missing)) |-> missing[i].f.title]

TitleSet(titles) == {titles.a[i] : i \in 1..Len(titles.a)}

\* C14 (as the code has it): newIssues lists the titles of the current
\* issues whose identity (category, normalized title) no previous issue has,
\* resolvedIssues those of the previous issues whose identity no current
\* issue has; a title is on both lists only when the two audits list it
\* under different categories; and resolvedIssues of A -> B equals
\* newIssues of B -> A.
C14_DiffAntisymmetricOnIdentities ==
    /\ dfPhase \in {"built", "both"} /\ dfOut # Null =>
          /\ dfOut.f.newIssues.a = TitlesMissingFrom(IssuesOf(dfParams.currentReview),
                                                     IssuesOf(dfParams.previousReview))
          /\ dfOut.f.resolvedIssues.a = TitlesMissingFrom(IssuesOf(dfParams.previousReview),
                                                          IssuesOf(dfParams.currentReview))
          /\ \A title \in TitleSet(dfOut.f.newIssues) \cap TitleSet(dfOut.f.resolvedIssues) :
                \E c \in Identities(IssuesOf(dfParams.currentReview)),
                   p \in Identities(IssuesOf(dfParams.previousReview)) :
                    /\ c[2] = normalizeTitle(title.s)
                    /\ p[2] = c[2]
                    /\ p[1] # c[1]
    /\ dfPhase = "both" =>
          /\ dfOut.f.resolvedIssues = dfBack.f.newIssues
          /\ dfOut.f.newIssues = dfBack.f.resolvedIssues

\* C14 witness: both directions were built for two audits that list the
\* same title under different categories; the title is new and resolved.
C14_Witness ==
    /\ dfPhase = "both"
    /\ dfOut.f.newIssues = Arr(<<Str(<<"Nav", " ", "bar">>)>>)
    /\ dfOut.f.resolvedIssues = Arr(<<Str(<<"Nav", " ", "bar">>)>>)
    /\ dfBack.f.newIssues = dfOut.f.resolvedIssues

\* C14 as stated: the two lists have no element in common, and
\* resolvedIssues of A -> B equals newIssues of B -> A.
C14_ListsDisjoint ==
    /\ dfPhase \in {"built", "both"} /\ dfOut # Null =>
          TitleSet(dfOut.f.newIssues) \cap TitleSet(dfOut.f.resolvedIssues) = {}
    /\ dfPhase = "both" => dfOut.f.resolvedIssues = dfBack.f.newIssues

\* C15: buildAuditDiff returns null when the previous Review or the
\* previous score is absent; in a diff that is not null healthDelta is null
\* unless both health scores are present, and is then their difference: an
\* absent health score is not read as 0.
C15_NullWithoutPrevious ==
    dfPhase \in {"built", "both"} =>
        /\ dfOut = Null <=> (dfParams.previousReview = Null \/ dfParams.previousScore = Null)
        /\ dfOut # Null =>
              IF dfParams.previousHealthScore = Null \/ dfParams.currentHealthScore = Null
              THEN dfOut.f.healthDelta = Null
              ELSE dfOut.f.healthDelta =
                      Num(dfParams.currentHealthScore.n - dfParams.previousHealthScore.n)

\* C15 witness: a diff was built for an audit with health score 80 whose
\* predecessor, scored 0, has none.
C15_Witness ==
    /\ dfPhase = "built"
    /\ dfOut # Null
    /\ dfParams.previousScore = Num(0)
    /\ dfParams.previousHealthScore = Null
    /\ dfParams.currentHealthScore = Num(80)
    /\ dfOut.f.healthDelta = Null

-----------------------------------------------------------------------------
(* calculateWebsiteHealthScore on its own *)

\* The product below holds no sum that is a half in the reals; the two sets
\* of halves (as listed with calculateWebsiteHealthScore) are added to it.
HealthInputs ==
    ({0, 20, 60, 100} \X {0, 10, 50, 100} \X {0, 5, 55, 100} \X {0, 20, 80, 100})
    \cup DoubleBelowHalf \cup DoubleExactHalf

InitHealth ==
    /\ mode = "health"
    /\ hsIn \in HealthInputs
    /\ hsOut = None
    /\ hsPhase = "input"
    /\ IdleNotHealth

ComposeScore ==
    /\ mode = "health"
    /\ hsPhase = "input"
    /\ hsOut' \in calculateWebsiteHealthScore(hsIn[1], hsIn[2], hsIn[3], hsIn[4])
    /\ hsPhase' = "composed"
    /\ UNCHANGED <<mode, notHealthVars, hsIn>>

NextHealth == ComposeScore

SpecHealth == InitHealth /\ [][NextHealth]_vars

\* C16: for whole inputs within 0..100 calculateWebsiteHealthScore returns
\* round(clamp(ux * 0.35 + performance * 0.30 + accessibility * 0.20 +
\* seo * 0.15)), the half rounding up as Math.round has it; all inputs 100
\* give 100 and all inputs 0 give 0.
C16_HealthFormula ==
    hsPhase = "composed" =>
        /\ hsOut = Max(0, Min(100, (35 * hsIn[1] + 30 * hsIn[2] + 20 * hsIn[3] + 15 * hsIn[4]
                                    + 50) \div 100))
        /\ hsIn = <<100, 100, 100, 100>> => hsOut = 100
        /\ hsIn = <<0, 0, 0, 0>> => hsOut = 0

-----------------------------------------------------------------------------
(* The analyzers' scores: content readability, motion and UX intelligence. *)
(* Snapshots are records of whole numbers and booleans, ratios being kept  *)
(* in hundredths; a weighted sum is handed to clamp as an exact fraction.  *)
(* The message lists the analyzers also return are left out.               *)

\* A number with one decimal, as a whole number when the decimal is 0.
Tenths(t) == IF t % 10 = 0 THEN Num(t \div 10) ELSE Frac(t, 10)

\* fleschScore, from the number of sentences, of words and of syllables:
\* 206.835 - 1.015 * words / sentences - 84.6 * syllables / words, through
\* toFixed(1) and then held within 0..100.
fleschScore(sentences, words, syllables) ==
    IF sentences = 0 \/ words = 0 THEN Num(0)
    ELSE Tenths(Max(0, Min(1000,
            (2 * (206835 * sentences * words - 1015 * words * words
                  - 84600 * syllables * sentences)
             + 100 * sentences * words) \div (200 * sentences * words))))

\* The risk added up without the relief for sites with both supports.
MotionRiskSumNoRelief(snapshot) ==
    Min(20, snapshot.autoCarousels * 12)
    + Min(18, snapshot.infiniteAnimations * 4)
    + Min(14, snapshot.longDurationAnimations * 4)
    + Min(8, Max(0, snapshot.scrollRevealElements - 2) * 2)
    + (IF snapshot.flashingRisk THEN 24 ELSE 0)
    + (IF snapshot.lcpElementLikelyAnimated THEN 10 ELSE 0)
    + (IF snapshot.reducedMotionSupport THEN 0 ELSE 12)
    + (IF snapshot.pauseControlPresent THEN 0 ELSE IF snapshot.autoCarousels > 0 THEN 8 ELSE 0)

\* The riskScore analyzeMotionSignals adds up, before clamp.
MotionRiskSum(snapshot) ==
    Min(20, snapshot.autoCarousels * 12)
    + Min(18, snapshot.infiniteAnimations * 4)
    + Min(14, snapshot.longDurationAnimations * 4)
    + Min(8, Max(0, snapshot.scrollRevealElements - 2) * 2)
    + (IF snapshot.flashingRisk THEN 24 ELSE 0)
    + (IF snapshot.lcpElementLikelyAnimated THEN 10 ELSE 0)
    + (IF snapshot.reducedMotionSupport THEN 0 ELSE 12)
    + (IF snapshot.pauseControlPresent THEN 0 ELSE IF snapshot.autoCarousels > 0 THEN 8 ELSE 0)
    - (IF snapshot.reducedMotionSupport /\ snapshot.pauseControlPresent THEN 6 ELSE 0)

\* The snapshots drawn have no transitions, script hooks, Lottie instances
\* or video-like animations, so those counts add nothing to the total.
analyzeMotionSignals(snapshot) ==
    [animation_count |-> snapshot.cssAnimations + snapshot.autoCarousels
                         + snapshot.scrollRevealElements,
     infinite_animations |-> snapshot.infiniteAnimations,
     auto_carousels |-> snapshot.autoCarousels,
     scroll_reveal_elements |-> snapshot.scrollRevealElements,
     long_duration_animations |-> snapshot.longDurationAnimations,
     accessibility_support |->
         snapshot.reducedMotionSupport
         /\ (snapshot.pauseControlPresent \/ snapshot.autoCarousels = 0),
     flashing_risk |-> snapshot.flashingRisk,
     lcp_element_likely_animated |-> snapshot.lcpElementLikelyAnimated,
     performance_correlation |-> <<>>,
     risk_score |-> clamp(Num(MotionRiskSum(snapshot)))]

\* findPerformanceMetric(...)?.score, or null
findPerformanceMetric(report, metricId) ==
    IF \E i \in 1..Len(MetricsOf(report)) : Get(MetricsOf(report)[i], "id") = W(metricId)
    THEN Get(MetricsOf(report)[CHOOSE i \in 1..Len(MetricsOf(report)) :
                /\ Get(MetricsOf(report)[i], "id") = W(metricId)
                /\ \A j \in 1..(i - 1) : Get(MetricsOf(report)[j], "id") # W(metricId)],
             "score")
    ELSE Null

\* cls && cls.score < 75 && (infinite || carousels || scroll reveal)
ClsCorrelates(analysis, cls) ==
    /\ cls # Null
    /\ cls.n < 75
    /\ \/ analysis.infinite_animations > 0
       \/ analysis.auto_carousels > 0
       \/ analysis.scroll_reveal_elements > 0

\* lcp && lcp.score < 75 && analysis.lcp_element_likely_animated
LcpCorrelates(analysis, lcp) ==
    lcp # Null /\ lcp.n < 75 /\ analysis.lcp_element_likely_animated

correlateMotionWithPerformance(analysis, performance) ==
    [analysis EXCEPT
        !.performance_correlation =
            (IF ClsCorrelates(analysis, findPerformanceMetric(performance, "cumulative-layout-shift"))
             THEN <<"cls">> ELSE <<>>)
            \o (IF LcpCorrelates(analysis, findPerformanceMetric(performance, "largest-contentful-paint"))
                THEN <<"lcp">> ELSE <<>>),
        !.risk_score =
            clamp(Num(analysis.risk_score.n
                      + (IF ClsCorrelates(analysis,
                                          findPerformanceMetric(performance, "cumulative-layout-shift"))
                         THEN 8 ELSE 0)
                      + (IF LcpCorrelates(analysis,
                                          findPerformanceMetric(performance, "largest-contentful-paint"))
                         THEN 10 ELSE 0)))]

toRiskLevel(score) ==
    IF score >= 70 THEN "High" ELSE IF score >= 45 THEN "Medium" ELSE "Low"

analyzeCognitiveLoad(snapshot) ==
    [primary_cta_conflict |-> snapshot.primaryCtaCountAboveFold >= 3,
     overcrowded_hero |-> snapshot.heroElementCount >= 14 \/ snapshot.heroInteractiveCount >= 5,
     cognitive_load_index |->
         clamp(Num(Min(35, Max(0, snapshot.ctaCountAboveFold - 1) * 10)
                   + (IF snapshot.primaryCtaCountAboveFold >= 3 THEN 20 ELSE 0)
                   + Min(20, Max(0, snapshot.ctaColorVariantCountAboveFold - 2) * 8)
                   + (IF snapshot.heroElementCount >= 14 \/ snapshot.heroInteractiveCount >= 5
                      THEN 20 ELSE 0)))]

\* The tail of analyzeVisualHierarchy, given its three clamped parts.
HierarchyOf(colorHierarchyScore, h1RatioPercent, ctaRatioPercent) ==
    [color_hierarchy_score |-> colorHierarchyScore,
     visual_dominance_ratio |-> clamp(Frac(h1RatioPercent.n + ctaRatioPercent.n, 2)),
     score |-> clamp(Frac(4 * h1RatioPercent.n + 4 * ctaRatioPercent.n
                          + 2 * colorHierarchyScore.n, 10))]

analyzeVisualHierarchy(snapshot) ==
    HierarchyOf(clamp(Num(100 - Max(0, snapshot.ctaColorVariantCountAboveFold - 2) * 15)),
                clamp(Num(snapshot.h1DominanceRatio)),
                clamp(Num(snapshot.ctaVisualDominanceRatio)))

analyzeFlow(snapshot) ==
    [estimated_pattern |->
         IF snapshot.leftAlignedKeyElementsRatio >= 70 THEN "f-pattern"
         ELSE IF snapshot.leftAlignedKeyElementsRatio >= 45 THEN "z-pattern"
         ELSE "mixed",
     reading_flow_score |->
         clamp(Num(100 - snapshot.flowReadingIssueCount * 14
                   + (IF snapshot.leftAlignedKeyElementsRatio >= 50 THEN 8 ELSE 0)))]

analyzeCTAQuality(snapshot) ==
    [cta_strength_score |->
         clamp(Num(60 + Min(25, snapshot.benefitCtaCount * 8)
                   + Min(10, snapshot.urgencyCtaCount * 4)
                   - Min(35, snapshot.vagueCtaCount * 9)))]

analyzeConversionFriction(snapshot) ==
    [form_fields_over_8 |-> snapshot.maxFormFieldCount > 8,
     conversion_friction_score |->
         clamp(Num(20 + (IF snapshot.maxFormFieldCount > 8 THEN 25 ELSE 0)
                   + (IF snapshot.requiresPhoneAndEmail THEN 22 ELSE 0)
                   + (IF snapshot.progressIndicatorPresent THEN 0 ELSE 15)
                   + (IF snapshot.trustBadgePresent THEN 0 ELSE 10)))]

analyzeTrustSignals(snapshot) ==
    [about_or_contact_visible |-> snapshot.aboutOrContactVisible,
     trust_score |->
         clamp(Num(25 + (IF snapshot.testimonialsPresent THEN 25 ELSE 0)
                   + (IF snapshot.socialProofPresent THEN 20 ELSE 0)
                   + (IF snapshot.trustBadgePresent THEN 20 ELSE 0)
                   + (IF snapshot.aboutOrContactVisible THEN 20 ELSE 0)))]

analyzeExperienceQuality(snapshot) ==
    [microinteraction_score |->
         clamp(Num(45 + snapshot.hoverFeedbackSignals * 8 + snapshot.inputFocusSignals * 10)),
     cta_visibility_score |->
         IF snapshot.viewportHeight > 0
         THEN clamp(Frac(100 * snapshot.viewportHeight
                         - Max(0, (snapshot.primaryCtaMinY - snapshot.viewportHeight) * 70),
                         snapshot.viewportHeight))
         ELSE clamp(Num(60)),
     navigation_simplicity_score |->
         clamp(Num(100 - (Max(0, snapshot.menuItemsCount - 7) * 5
                          + Max(0, snapshot.navMaxDepth - 2) * 12
                          + (IF snapshot.hasHamburger /\ snapshot.hasVisibleDesktopLikeNav
                             THEN 10 ELSE 0))))]

\* The tail of analyzeUXIntelligence, given the seven analyses.
UXAnalysisOf(snapshot, options, cognitive, hierarchy, flow, cta, friction, trust, experience) ==
    [cognitive_load |-> cognitive,
     visual_hierarchy |-> hierarchy,
     flow_analysis |-> flow,
     cta_quality |-> cta,
     conversion_friction |-> friction,
     trust_signals |-> trust,
     experience_quality |-> experience,
     first_impression_score |->
         clamp(Frac(2 * ((IF snapshot.headlineLength > 20 /\ snapshot.headlineLength < 85
                          THEN 80 ELSE 55)
                         + (IF snapshot.hasValuePropHint THEN 85 ELSE 55)
                         + cta.cta_strength_score.n
                         + (100 - cognitive.cognitive_load_index.n)
                         + hierarchy.score.n), 10)),
     ux_risk_radar |->
         [clarity |-> clamp(Frac(5 * (100 - cognitive.cognitive_load_index.n)
                                 + 5 * hierarchy.score.n, 10)),
          conversion |-> clamp(Frac(6 * (100 - friction.conversion_friction_score.n)
                                    + 4 * cta.cta_strength_score.n, 10)),
          trust |-> trust.trust_score,
          content |-> clamp(Coalesce(options.readabilityScore, Num(60))),
          interaction |-> clamp(Frac(5 * (100 - Coalesce(options.motionRiskScore, Num(40)).n)
                                     + 5 * experience.microinteraction_score.n, 10)),
          navigation |-> clamp(Frac(5 * flow.reading_flow_score.n
                                    + 5 * experience.navigation_simplicity_score.n, 10))],
     risk_level |->
         toRiskLevel(clamp(Frac(20 * cognitive.cognitive_load_index.n
                                + 25 * friction.conversion_friction_score.n
                                + 20 * (100 - trust.trust_score.n)
                                + 15 * (100 - cta.cta_strength_score.n)
                                + 20 * (100 - flow.reading_flow_score.n), 100)).n)]

analyzeUXIntelligence(snapshot, options) ==
    UXAnalysisOf(snapshot, options,
                 analyzeCognitiveLoad(snapshot), analyzeVisualHierarchy(snapshot),
                 analyzeFlow(snapshot), analyzeCTAQuality(snapshot),
                 analyzeConversionFriction(snapshot), analyzeTrustSignals(snapshot),
                 analyzeExperienceQuality(snapshot))

-----------------------------------------------------------------------------
(* Inputs of the analyzers *)

\* Texts by their counts; <<2, 9, 19>> is "Our platform improves customer
\* onboarding. Teams deliver projects faster."
ContentInputs ==
    {[kind |-> "content", sentences |-> c[1], words |-> c[2], syllables |-> c[3]] :
        c \in ({0, 1, 3} \X {0, 6, 20} \X {6, 20, 30}) \cup {<<2, 9, 19>>}}

ScoredMetric(id, score) == Obj([id |-> W(id), score |-> Num(score)])

MotionReports ==
    {PerformanceOf(<<>>),
     PerformanceOf(<<ScoredMetric("cumulative-layout-shift", 40),
                     ScoredMetric("largest-contentful-paint", 90)>>),
     PerformanceOf(<<ScoredMetric("largest-contentful-paint", 55),
                     ScoredMetric("cumulative-layout-shift", 74)>>)}

MotionInputs ==
    {[kind |-> "motion", snapshot |-> snapshot, performance |-> performance] :
        snapshot \in [cssAnimations : {0, 4},
                      autoCarousels : {0, 1, 3},
                      infiniteAnimations : {0, 9},
                      longDurationAnimations : {0, 5},
                      scrollRevealElements : {0, 3, 10},
                      flashingRisk : BOOLEAN,
                      lcpElementLikelyAnimated : BOOLEAN,
                      reducedMotionSupport : BOOLEAN,
                      pauseControlPresent : BOOLEAN],
        performance \in MotionReports}

UXSnapshots ==
    {cognitive @@ hierarchy @@ flow @@ cta @@ friction @@ trust @@ experience @@ headline :
        cognitive \in
            {[ctaCountAboveFold |-> 0, primaryCtaCountAboveFold |-> 0,
              ctaColorVariantCountAboveFold |-> 0, heroElementCount |-> 0,
              heroInteractiveCount |-> 0],
             [ctaCountAboveFold |-> 2, primaryCtaCountAboveFold |-> 1,
              ctaColorVariantCountAboveFold |-> 3, heroElementCount |-> 8,
              heroInteractiveCount |-> 2],
             [ctaCountAboveFold |-> 6, primaryCtaCountAboveFold |-> 3,
              ctaColorVariantCountAboveFold |-> 12, heroElementCount |-> 20,
              heroInteractiveCount |-> 6]},
        hierarchy \in
            {[h1DominanceRatio |-> 0, ctaVisualDominanceRatio |-> 0],
             [h1DominanceRatio |-> 35, ctaVisualDominanceRatio |-> 62],
             [h1DominanceRatio |-> 120, ctaVisualDominanceRatio |-> 90]},
        flow \in
            {[flowReadingIssueCount |-> 0, leftAlignedKeyElementsRatio |-> 80],
             [flowReadingIssueCount |-> 9, leftAlignedKeyElementsRatio |-> 30]},
        cta \in
            {[vagueCtaCount |-> 0, benefitCtaCount |-> 0, urgencyCtaCount |-> 0],
             [vagueCtaCount |-> 0, benefitCtaCount |-> 4, urgencyCtaCount |-> 3],
             [vagueCtaCount |-> 8, benefitCtaCount |-> 0, urgencyCtaCount |-> 0]},
        friction \in
            {[maxFormFieldCount |-> 3, requiresPhoneAndEmail |-> FALSE,
              progressIndicatorPresent |-> TRUE, trustBadgePresent |-> TRUE],
             [maxFormFieldCount |-> 10, requiresPhoneAndEmail |-> TRUE,
              progressIndicatorPresent |-> FALSE, trustBadgePresent |-> FALSE]},
        trust \in
            {[testimonialsPresent |-> FALSE, socialProofPresent |-> FALSE,
              aboutOrContactVisible |-> FALSE],
             [testimonialsPresent |-> TRUE, socialProofPresent |-> TRUE,
              aboutOrContactVisible |-> TRUE]},
        experience \in
            {[hoverFeedbackSignals |-> 0, inputFocusSignals |-> 0, primaryCtaMinY |-> 300,
              viewportHeight |-> 800, menuItemsCount |-> 5, navMaxDepth |-> 1,
              hasHamburger |-> FALSE, hasVisibleDesktopLikeNav |-> TRUE],
             [hoverFeedbackSignals |-> 4, inputFocusSignals |-> 3, primaryCtaMinY |-> 2400,
              viewportHeight |-> 800, menuItemsCount |-> 40, navMaxDepth |-> 5,
              hasHamburger |-> TRUE, hasVisibleDesktopLikeNav |-> TRUE],
             [hoverFeedbackSignals |-> 1, inputFocusSignals |-> 0, primaryCtaMinY |-> 900,
              viewportHeight |-> 0, menuItemsCount |-> 9, navMaxDepth |-> 3,
              hasHamburger |-> TRUE, hasVisibleDesktopLikeNav |-> FALSE]},
        headline \in
            {[headlineLength |-> 10, hasValuePropHint |-> FALSE],
             [headlineLength |-> 40, hasValuePropHint |-> TRUE]}}

\* options.readabilityScore and options.motionAnalysis?.risk_score
UXInputs ==
    {[kind |-> "ux", snapshot |-> snapshot,
      options |-> [readabilityScore |-> readability, motionRiskScore |-> risk]] :
        snapshot \in UXSnapshots,
        readability \in {Undef, Num(100), fleschScore(2, 9, 19)},
        risk \in {Undef, Num(0), Num(100)}}

InitScores ==
    /\ mode = "scores"
    /\ scIn \in ContentInputs \cup MotionInputs \cup UXInputs
    /\ scOut = None
    /\ scPhase = "input"
    /\ IdleNotScores

AnalyzeContent ==
    /\ mode = "scores"
    /\ scPhase = "input"
    /\ scIn.kind = "content"
    /\ scOut' = [readability_score |-> fleschScore(scIn.sentences, scIn.words, scIn.syllables)]
    /\ scPhase' = "analyzed"
    /\ UNCHANGED <<mode, notScoresVars, scIn>>

AnalyzeMotion ==
    /\ mode = "scores"
    /\ scPhase = "input"
    /\ scIn.kind = "motion"
    /\ scOut' = analyzeMotionSignals(scIn.snapshot)
    /\ scPhase' = "analyzed"
    /\ UNCHANGED <<mode, notScoresVars, scIn>>

CorrelateMotion ==
    /\ mode = "scores"
    /\ scPhase = "analyzed"
    /\ scIn.kind = "motion"
    /\ scOut' = correlateMotionWithPerformance(scOut, scIn.performance)
    /\ scPhase' = "correlated"
    /\ UNCHANGED <<mode, notScoresVars, scIn>>

AnalyzeUX ==
    /\ mode = "scores"
    /\ scPhase = "input"
    /\ scIn.kind = "ux"
    /\ scOut' = analyzeUXIntelligence(scIn.snapshot, scIn.options)
    /\ scPhase' = "analyzed"
    /\ UNCHANGED <<mode, notScoresVars, scIn>>

NextScores == AnalyzeContent \/ AnalyzeMotion \/ CorrelateMotion \/ AnalyzeUX

SpecScores == InitScores /\ [][NextScores]_vars

-----------------------------------------------------------------------------
(* Properties of the analyzers' scores *)

\* The scores of an analyzer's result.
ProducedScores(kind, out) ==
    CASE kind = "content" -> {out.readability_score}
      [] kind = "motion" -> {out.risk_score}
      [] OTHER ->
            {out.cognitive_load.cognitive_load_index,
             out.visual_hierarchy.color_hierarchy_score,
             out.visual_hierarchy.visual_dominance_ratio,
             out.visual_hierarchy.score,
             out.flow_analysis.reading_flow_score,
             out.cta_quality.cta_strength_score,
             out.conversion_friction.conversion_friction_score,
             out.trust_signals.trust_score,
             out.experience_quality.microinteraction_score,
             out.experience_quality.cta_visibility_score,
             out.experience_quality.navigation_simplicity_score,
             out.first_impression_score,
             out.ux_risk_radar.clarity, out.ux_risk_radar.conversion,
             out.ux_risk_radar.trust, out.ux_risk_radar.content,
             out.ux_risk_radar.interaction, out.ux_risk_radar.navigation}

\* C17: every score the analyzers produce from a snapshot with non-negative
\* counts is a whole number within 0..100: the content readability score,
\* the motion risk score before and after the performance correlation, and
\* the UX sub-scores, first-impression score and radar axes.
C17_ScoresAreWholeAndBounded ==
    scPhase \in {"analyzed", "correlated"} =>
        \A score \in ProducedScores(scIn.kind, scOut) : IsScore(score)

-----------------------------------------------------------------------------
(* getPerformanceReport: the PageSpeed Insights call, its retries and its  *)
(* fallback. A Lighthouse score is a fraction in hundredths; descriptions  *)
(* of metrics are left out.                                                *)

PSI_MAX_RETRIES == 2
PSI_RETRYABLE_STATUS_CODES == {408, 429, 500, 502, 503, 504}

\* new Error(message): an error without a status
PsiError(message) == ErrorOf(FALSE, 0, "", message)

\* What reading a property of undefined throws.
TypeErrorOfUndefined == PsiError(<<"Cannot read properties of undefined">>)

\* Math.round(Math.max(0, Math.min(100, value * 100))), 0 for null or undefined
normalizeScore(value) ==
    IF value \in {Null, Undef} THEN Num(0)
    ELSE clamp(Frac(value.num * 100, value.den))

keyMetrics ==
    <<"first-contentful-paint", "largest-contentful-paint", "total-blocking-time",
      "cumulative-layout-shift", "speed-index", "interactive">>

\* One audit as a metric.
MetricOfAudit(audit) ==
    Obj([id |-> audit.id, title |-> audit.title, score |-> normalizeScore(audit.score),
         displayValue |-> OrElse(audit.displayValue, W("N/A"))])

\* extractMetrics: the key metrics the audits hold, in the order of keyMetrics
PresentKeys(audits) == SelectSeq(keyMetrics, LAMBDA key : key \in DOMAIN audits)

extractMetrics(audits) ==
    [i \in 1..Len(PresentKeys(audits)) |-> MetricOfAudit(audits[PresentKeys(audits)[i]])]

FallbackMetric(id, title) ==
    Obj([id |-> W(id), title |-> W(title), score |-> Num(50),
         displayValue |-> W("N/A (PageSpeed API unavailable)")])

\* Date.now()
DateNow == W("now")

CategoryData(id, title, score, metrics) ==
    Obj([id |-> W(id), title |-> W(title), score |-> score, metrics |-> Arr(metrics)])

PerformanceReport(perfScore, a11yScore, bestPracticesScore, seoScore, overall, metrics) ==
    Obj([performance |-> CategoryData("performance", "Performance", perfScore, metrics),
         accessibility |-> CategoryData("accessibility", "Accessibility", a11yScore, <<>>),
         bestPractices |-> CategoryData("best-practices", "Best Practices",
                                        bestPracticesScore, <<>>),
         seo |-> CategoryData("seo", "SEO", seoScore, <<>>),
         overallPerformanceScore |-> overall,
         timestamp |-> DateNow])

createFallbackPerformanceReport ==
    PerformanceReport(Num(50), Num(50), Num(50), Num(50), Num(50),
                      <<FallbackMetric("fallback-metric-1", "First Contentful Paint"),
                        FallbackMetric("fallback-metric-2", "Largest Contentful Paint"),
                        FallbackMetric("fallback-metric-3", "Cumulative Layout Shift")>>)

\* fetchPageSpeedInsights, given whether the key is configured and what the
\* network did: the parsed body, or what is thrown.
fetchPageSpeedInsights(key, net) ==
    IF ~key THEN Raise(PsiError(<<"PAGESPEED_API_KEY is not configured.">>))
    ELSE IF net.kind = "reject" THEN Raise(net.error)
    ELSE IF ~ (net.status \in 200..299)
    THEN Raise(PsiError(<<"PageSpeed API error:", " ">> \o ToStr(Num(net.status)).s
                        \o <<" ", net.statusText>>))
    ELSE IF net.body.k = "notjson" THEN Raise(PsiError(<<"Unexpected token">>))
    ELSE net.body

\* categories.<name>?.score
CategoryScore(lighthouse, name) ==
    IF name \in DOMAIN lighthouse.categories THEN lighthouse.categories[name] ELSE Undef

\* Whether the body of the try block reads a property of undefined.
ReadsUndefined(desktopResult, mobileResult) ==
    \/ desktopResult.lighthouseResult = Undef
    \/ mobileResult.lighthouseResult = Undef
    \/ desktopResult.lighthouseResult.categories = Undef
    \/ mobileResult.lighthouseResult.categories = Undef
    \/ desktopResult.lighthouseResult.audits = Undef

\* The report of the try block; the overall score is
\* Math.round(perfScore * 0.5 + mobile * 0.5).
ReportOf(lhDesktop, lhMobile) ==
    PerformanceReport(
        normalizeScore(CategoryScore(lhDesktop, "performance")),
        normalizeScore(CategoryScore(lhDesktop, "accessibility")),
        normalizeScore(CategoryScore(lhDesktop, "best-practices")),
        normalizeScore(CategoryScore(lhDesktop, "seo")),
        Num((normalizeScore(CategoryScore(lhDesktop, "performance")).n
             + normalizeScore(CategoryScore(lhMobile, "performance")).n + 1) \div 2),
        extractMetrics(lhDesktop.audits))

\* What one pass through the try block may come to, given the two fetches:
\* Promise.all rejects with the rejection that comes first.
TryResults(desktopResult, mobileResult) ==
    IF IsThrow(desktopResult) \/ IsThrow(mobileResult)
    THEN {result \in {desktopResult, mobileResult} : IsThrow(result)}
    ELSE IF ReadsUndefined(desktopResult, mobileResult)
    THEN {Raise(TypeErrorOfUndefined)}
    ELSE {ReportOf(desktopResult.lighthouseResult, mobileResult.lighthouseResult)}

\* /timeout|timed out|network/i
TimeoutTokens ==
    {"Gateway Timeout", "Request Timeout", "network timeout", "The operation timed out"}

\* error instanceof Error && (RETRYABLE_STATUS_CODES.has(error.status) || regex)
isRetryablePsiError(error) ==
    error.status \in PSI_RETRYABLE_STATUS_CODES \/ Matches(error.message, TimeoutTokens)

\* The retry that never gives up.
CanRetryAlways(error, n) == isRetryablePsiError(error)

\* isRetryable && attempt < MAX_RETRIES
CanRetry(error, n) == isRetryablePsiError(error) /\ n < PSI_MAX_RETRIES

\* const waitMs = 500 * 2 ** attempt
psiWaitMs(n) == 500 * Pow2(n)

LogEntry(event, n, wait, message) ==
    [event |-> event, attempt |-> n, waitMs |-> wait, errorMessage |-> message]

-----------------------------------------------------------------------------
(* What the network may do to one request *)

Rejected(status, message) == [kind |-> "reject", error |-> ErrorOf(FALSE, status, "", message)]

Answered(status, statusText, body) ==
    [kind |-> "http", status |-> status, statusText |-> statusText, body |-> body]

Audit(id, title, score, displayValue) ==
    [id |-> W(id), title |-> W(title), score |-> score, displayValue |-> displayValue]

FullBody ==
    [k |-> "json",
     lighthouseResult |->
        [categories |-> [name \in {"performance", "accessibility", "best-practices", "seo"} |->
                            CASE name = "performance" -> Frac(57, 100)
                              [] name = "accessibility" -> Frac(82, 100)
                              [] name = "best-practices" -> Frac(100, 100)
                              [] OTHER -> Frac(91, 100)],
         audits |-> [key \in {"largest-contentful-paint", "cumulative-layout-shift", "viewport"} |->
                        CASE key = "largest-contentful-paint" ->
                                Audit(key, "Largest Contentful Paint", Frac(40, 100),
                                      Str(<<"2.4", " ", "s">>))
                          [] key = "cumulative-layout-shift" ->
                                Audit(key, "Cumulative Layout Shift", Null, Undef)
                          [] OTHER -> Audit(key, "Viewport", Frac(100, 100), Undef)]]]

SparseBody ==
    [k |-> "json",
     lighthouseResult |->
        [categories |-> [name \in {"performance", "seo"} |->
                            IF name = "performance" THEN Frac(12, 100) ELSE Null],
         audits |-> [key \in {} |-> Undef]]]

NetworkOutcomes ==
    {Answered(200, "OK", FullBody),
     Answered(200, "OK", SparseBody),
     Answered(200, "OK", [k |-> "json", lighthouseResult |-> Undef]),
     Answered(200, "OK", [k |-> "json",
                          lighthouseResult |-> [categories |-> Undef, audits |-> Undef]]),
     Answered(200, "OK", [k |-> "notjson"]),
     Answered(403, "Forbidden", [k |-> "notjson"]),
     Answered(504, "Gateway Timeout", [k |-> "notjson"]),
     Rejected(0, <<"fetch failed">>),
     Rejected(0, <<"network timeout">>),
     Rejected(503, <<"Service Unavailable">>)}

InitPerf ==
    /\ mode = "performance"
    /\ pfKey \in BOOLEAN
    /\ pfPc = "call"
    /\ pfAttempt = 0
    /\ pfOut = None
    /\ pfLog = <<>>
    /\ IdleNotPerf

\* The call up to the loop: without a key the fallback is returned at once.
CallReport ==
    /\ mode = "performance"
    /\ pfPc = "call"
    /\ IF ~pfKey
       THEN /\ pfLog' = pfLog \o <<LogEntry("performance.missing_api_key", 0, 0, <<>>),
                                   LogEntry("performance.fallback", 0, 0, <<>>)>>
            /\ pfOut' = createFallbackPerformanceReport
            /\ pfPc' = "done"
       ELSE /\ pfPc' = "attempt"
            /\ UNCHANGED <<pfLog, pfOut>>
    /\ UNCHANGED <<mode, notPerfVars, pfKey, pfAttempt>>

\* One pass of the loop whose try block returns the report.
AttemptReturns ==
    /\ mode = "performance"
    /\ pfPc = "attempt"
    /\ \E desktop \in NetworkOutcomes, mobile \in NetworkOutcomes :
        \E result \in TryResults(fetchPageSpeedInsights(pfKey, desktop),
                                 fetchPageSpeedInsights(pfKey, mobile)) :
            /\ ~IsThrow(result)
            /\ pfLog' = Append(pfLog, LogEntry("performance.success", pfAttempt, 0, <<>>))
            /\ pfOut' = result
            /\ pfPc' = "done"
    /\ UNCHANGED <<mode, notPerfVars, pfKey, pfAttempt>>

\* One pass of the loop that ends in the catch block and retries: after the
\* sleep the loop counts up and tests attempt <= MAX_RETRIES again, and
\* past the loop the function throws.
AttemptRetries ==
    /\ mode = "performance"
    /\ pfPc = "attempt"
    /\ \E desktop \in NetworkOutcomes, mobile \in NetworkOutcomes :
        \E result \in TryResults(fetchPageSpeedInsights(pfKey, desktop),
                                 fetchPageSpeedInsights(pfKey, mobile)) :
            /\ IsThrow(result)
            /\ CanRetry(result.error, pfAttempt)
            /\ pfLog' = Append(pfLog, LogEntry("performance.retry", pfAttempt + 1,
                                               psiWaitMs(pfAttempt), result.error.message))
    /\ pfAttempt' = pfAttempt + 1
    /\ IF pfAttempt + 1 <= PSI_MAX_RETRIES
       THEN pfPc' = "attempt" /\ UNCHANGED pfOut
       ELSE /\ pfPc' = "done"
            /\ pfOut' = Raise(PsiError(<<"Performance report failed after retries.">>))
    /\ UNCHANGED <<mode, notPerfVars, pfKey>>

\* One pass of the loop that ends in the catch block and gives up.
AttemptFallsBack ==
    /\ mode = "performance"
    /\ pfPc = "attempt"
    /\ \E desktop \in NetworkOutcomes, mobile \in NetworkOutcomes :
        \E result \in TryResults(fetchPageSpeedInsights(pfKey, desktop),
                                 fetchPageSpeedInsights(pfKey, mobile)) :
            /\ IsThrow(result)
            /\ ~CanRetry(result.error, pfAttempt)
            /\ pfLog' = pfLog \o <<LogEntry("performance.error", pfAttempt + 1, 0,
                                            result.error.message),
                                   LogEntry("performance.fallback", 0, 0, <<>>)>>
    /\ pfOut' = createFallbackPerformanceReport
    /\ pfPc' = "done"
    /\ UNCHANGED <<mode, notPerfVars, pfKey, pfAttempt>>

NextPerf == CallReport \/ AttemptReturns \/ AttemptRetries \/ AttemptFallsBack

SpecPerf == InitPerf /\ [][NextPerf]_vars

-----------------------------------------------------------------------------
(* Properties of getPerformanceReport *)

\* The four category scores and the overall score of a report.
ReportScores(report) ==
    {Get(Get(report, "performance"), "score"), Get(Get(report, "accessibility"), "score"),
     Get(Get(report, "bestPractices"), "score"), Get(Get(report, "seo"), "score"),
     Get(report, "overallPerformanceScore")}

\* A report with its four categories, each with a whole score within 0..100
\* and a list of metrics, and a whole overall score within 0..100.
IsPerformanceReport(report) ==
    /\ report.k = "obj"
    /\ \A score \in ReportScores(report) : IsScore(score)
    /\ \A name \in {"performance", "accessibility", "bestPractices", "seo"} :
            Get(Get(report, name), "metrics").k = "arr"

\* The call failed: it ended without the success entry in the log.
ReportFailed ==
    /\ pfPc = "done"
    /\ \A i \in 1..Len(pfLog) : pfLog[i].event # "performance.success"

\* C18: getPerformanceReport never rejects; it always resolves with a valid
\* report, and when the PageSpeed call failed (no key, HTTP error, network
\* error, malformed answer, retries used up) the report is the fallback
\* whose four category scores and overall score are all 50.
C18_ReportNeverRejects ==
    pfPc = "done" =>
        /\ ~IsThrow(pfOut)
        /\ IsPerformanceReport(pfOut)
        /\ ReportFailed => ReportScores(pfOut) = {Num(50)}

\* The retries are used up: the third attempt failed with a retryable error.
C18_Witness ==
    /\ pfPc = "done"
    /\ pfAttempt = PSI_MAX_RETRIES
    /\ Len(pfLog) = 4
    /\ pfLog[3].event = "performance.error"
    /\ pfLog[3].errorMessage = <<"network timeout">>
    /\ ReportScores(pfOut) = {Num(50)}

-----------------------------------------------------------------------------
(* normalizeUrl and the routes POST /api/analyze and POST /api/compare.    *)
(* A URL text is a sequence of tokens: white space, a scheme with its      *)
(* slashes, a host, a path. analyzeAndSave is seen from the route: it is   *)
(* invoked with a URL and later resolves with a review or rejects.         *)

\* /^https?:\/\//i
HttpSchemes == {"http://", "https://", "HTTP://", "HTTPS://"}

\* The hosts the URL parser accepts; a text with a space inside is none.
HostTokens == {"example.com", "EXAMPLE.com", "localhost"}

\* The parser's lower-casing of scheme and host.
UrlLower(tok) ==
    CASE tok = "EXAMPLE.com" -> "example.com"
      [] tok = "HTTP://" -> "http://"
      [] tok = "HTTPS://" -> "https://"
      [] OTHER -> tok

\* new URL(text).toString() for a text that begins with an http(s) scheme:
\* the scheme and the host in lower case and the path, "/" when there is
\* none; "ftp:" after the scheme is read as the host ftp with an empty
\* port, the rest being the path. Anything else is no URL.
ParsedUrl(text) ==
    IF Len(text) < 2 THEN Throw
    ELSE IF text[2] \in HostTokens
    THEN IF \A i \in 3..Len(text) : text[i] \in {"/pricing"}
         THEN Str(<<UrlLower(text[1]), UrlLower(text[2])>>
                  \o (IF Len(text) = 2 THEN <<"/">> ELSE SubSeq(text, 3, Len(text))))
         ELSE Throw
    ELSE IF text[2] = "ftp://" /\ Len(text) = 3 /\ text[3] \in HostTokens
    THEN Str(<<UrlLower(text[1]), "ftp", "//", text[3]>>)
    ELSE Throw

\* value with the protocol put in front where it has none
WithProtocol(value) ==
    IF value # <<>> /\ value[1] \in HttpSchemes THEN value ELSE <<"https://">> \o value

\* normalizeUrl; a value that is no string has no trim to call.
normalizeUrl(input) ==
    IF input.k # "str" THEN Raise(PsiError(<<"input.trim is not a function">>))
    ELSE IF Trim(input.s) = <<>> THEN Raise(PsiError(<<"URL is required.">>))
    ELSE IF IsThrow(ParsedUrl(WithProtocol(Trim(input.s))))
    THEN Raise(PsiError(<<"Invalid URL format.">>))
    ELSE IF UrlLower(WithProtocol(Trim(input.s))[1]) \notin {"http://", "https://"}
    THEN Raise(PsiError(<<"Only HTTP and HTTPS URLs are supported.">>))
    ELSE ParsedUrl(WithProtocol(Trim(input.s)))

\* The calls of analyzeAndSave a compare request makes if the left URL is
\* analyzed as soon as it is known to be valid.
CompareCallsEager(leftUrl, rightUrl, requestId) ==
    IF IsThrow(leftUrl) THEN <<>>
    ELSE <<[url |-> leftUrl, requestId |-> requestId, source |-> "api.compare.left"]>>
         \o (IF IsThrow(rightUrl) THEN <<>>
             ELSE <<[url |-> rightUrl, requestId |-> requestId,
                     source |-> "api.compare.right"]>>)

\* The calls of analyzeAndSave a compare request makes: both URLs are
\* normalized before Promise.all starts the two analyses.
CompareCalls(leftUrl, rightUrl, requestId) ==
    IF IsThrow(leftUrl) \/ IsThrow(rightUrl) THEN <<>>
    ELSE <<[url |-> leftUrl, requestId |-> requestId, source |-> "api.compare.left"],
           [url |-> rightUrl, requestId |-> requestId, source |-> "api.compare.right"]>>

\* error instanceof Error ? error.message : dflt, as the 400 response
ErrorResponse(caught) ==
    [status |-> 400, body |-> Obj([ok |-> Bool(FALSE), error |-> Str(caught.error.message)])]

\* await request.json(), then body.<name> || ""
BodyField(body, name) ==
    IF body.k = "notjson" THEN Raise(PsiError(<<"Unexpected token">>))
    ELSE IF body \in {Null, Undef} THEN Raise(TypeErrorOfUndefined)
    ELSE OrElse(Get(body, name), Str(<<>>))

\* normalizeUrl(body.<name> || ""), or what reading the body threw
NormalizedField(body, name) ==
    IF IsThrow(BodyField(body, name)) THEN BodyField(body, name)
    ELSE normalizeUrl(BodyField(body, name))

\* The first thing thrown of two evaluated in order.
FirstThrown(a, b) == IF IsThrow(a) THEN a ELSE b

-----------------------------------------------------------------------------
(* Requests *)

UrlValues ==
    {Undef, Null, Num(5), Str(<<>>), Str(<<" ">>),
     Str(<<"example.com">>), Str(<<" ", "EXAMPLE.com", "/pricing", " ">>),
     Str(<<"localhost">>), Str(<<"http://", "example.com">>),
     Str(<<"HTTPS://", "example.com", "/pricing">>),
     Str(<<"ftp://", "example.com">>),
     Str(<<"not a url">>), Str(<<"http://">>), Str(<<"example.com", " ", "/pricing">>)}

AnalyzeBodies ==
    {[k |-> "notjson"], Null, Obj(EmptyRec)} \cup {Obj([url |-> url]) : url \in UrlValues}

CompareBodies ==
    {[k |-> "notjson"], Null, Obj(EmptyRec)}
    \cup {Obj([leftUrl |-> leftUrl, rightUrl |-> rightUrl]) :
            leftUrl \in UrlValues, rightUrl \in UrlValues}

\* What analyzeAndSave may come to: a review with its score, or a rejection.
AnalysisOutcomes ==
    {Obj([score |-> Num(40)]), Obj([score |-> Num(82)]),
     Raise(PsiError(<<"Database unavailable">>)),
     Raise(PsiError(<<"Navigation timeout">>))}

RequestIds == {"request-1"}

InitRoutes ==
    /\ mode = "routes"
    /\ rtRoute \in {"analyze", "compare"}
    /\ rtBody \in (IF rtRoute = "analyze" THEN AnalyzeBodies ELSE CompareBodies)
    /\ rtRequestId \in RequestIds
    /\ rtPc = "received"
    /\ rtCalls = <<>>
    /\ rtResponse = None
    /\ rtOutcomes = <<>>
    /\ IdleNotRoutes

\* POST /api/analyze up to the await of analyzeAndSave
PostAnalyze ==
    /\ mode = "routes"
    /\ rtRoute = "analyze"
    /\ rtPc = "received"
    /\ IF IsThrow(NormalizedField(rtBody, "url"))
       THEN /\ rtResponse' = ErrorResponse(NormalizedField(rtBody, "url"))
            /\ rtPc' = "responded"
            /\ UNCHANGED rtCalls
       ELSE /\ rtCalls' = <<[url |-> NormalizedField(rtBody, "url"),
                             requestId |-> rtRequestId, source |-> "api.analyze"]>>
            /\ rtPc' = "analyzing"
            /\ UNCHANGED rtResponse
    /\ UNCHANGED <<mode, notRoutesVars, rtRoute, rtBody, rtRequestId, rtOutcomes>>

\* POST /api/compare up to the await of Promise.all
PostCompare ==
    /\ mode = "routes"
    /\ rtRoute = "compare"
    /\ rtPc = "received"
    /\ rtCalls' = CompareCalls(NormalizedField(rtBody, "leftUrl"),
                               NormalizedField(rtBody, "rightUrl"), rtRequestId)
    /\ IF IsThrow(NormalizedField(rtBody, "leftUrl"))
          \/ IsThrow(NormalizedField(rtBody, "rightUrl"))
       THEN /\ rtResponse' = ErrorResponse(FirstThrown(NormalizedField(rtBody, "leftUrl"),
                                                       NormalizedField(rtBody, "rightUrl")))
            /\ rtPc' = "responded"
       ELSE /\ rtPc' = "analyzing"
            /\ UNCHANGED rtResponse
    /\ UNCHANGED <<mode, notRoutesVars, rtRoute, rtBody, rtRequestId, rtOutcomes>>

\* What POST /api/compare would answer if it returned the side that
\* succeeded when the other analysis fails.
CompareResultPartial(invoked, leftReview, rightReview) ==
    IF IsThrow(leftReview) /\ IsThrow(rightReview)
    THEN {ErrorResponse(leftReview), ErrorResponse(rightReview)}
    ELSE {[status |-> 200,
           body |-> Obj([side \in {x \in {"left", "right"} :
                                        ~IsThrow(IF x = "left" THEN leftReview ELSE rightReview)}
                            |-> IF side = "left"
                                THEN Obj([url |-> invoked[1].url, review |-> leftReview])
                                ELSE Obj([url |-> invoked[2].url, review |-> rightReview])]
                        @@ [ok |-> Bool(TRUE)])]}

\* What POST /api/compare answers once its two analyses have ended:
\* Promise.all rejects with the rejection that comes first, and the catch
\* block answers 400 with its message.
CompareResult(invoked, leftReview, rightReview) ==
    IF IsThrow(leftReview) \/ IsThrow(rightReview)
    THEN {ErrorResponse(r) : r \in {o \in {leftReview, rightReview} : IsThrow(o)}}
    ELSE {[status |-> 200,
           body |-> Obj([ok |-> Bool(TRUE),
                         left |-> Obj([url |-> invoked[1].url, review |-> leftReview]),
                         right |-> Obj([url |-> invoked[2].url, review |-> rightReview]),
                         scoreDifference |->
                            Num(Get(rightReview, "score").n - Get(leftReview, "score").n)])]}

\* The analysis of POST /api/analyze ends and the route responds.
AnalyzeResponds ==
    /\ mode = "routes"
    /\ rtRoute = "analyze"
    /\ rtPc = "analyzing"
    /\ \E outcome \in AnalysisOutcomes :
        /\ rtOutcomes' = <<outcome>>
        /\ rtResponse' =
            IF IsThrow(outcome) THEN ErrorResponse(outcome)
            ELSE [status |-> 200,
                  body |-> Obj([ok |-> Bool(TRUE), url |-> rtCalls[1].url, review |-> outcome])]
    /\ rtPc' = "responded"
    /\ UNCHANGED <<mode, notRoutesVars, rtRoute, rtBody, rtRequestId, rtCalls>>

\* The two analyses of POST /api/compare end and the route responds.
CompareResponds ==
    /\ mode = "routes"
    /\ rtRoute = "compare"
    /\ rtPc = "analyzing"
    /\ \E leftReview \in AnalysisOutcomes, rightReview \in AnalysisOutcomes :
        /\ rtOutcomes' = <<leftReview, rightReview>>
        /\ rtResponse' \in CompareResult(rtCalls, leftReview, rightReview)
    /\ rtPc' = "responded"
    /\ UNCHANGED <<mode, notRoutesVars, rtRoute, rtBody, rtRequestId, rtCalls>>

NextRoutes == PostAnalyze \/ PostCompare \/ AnalyzeResponds \/ CompareResponds

SpecRoutes == InitRoutes /\ [][NextRoutes]_vars

-----------------------------------------------------------------------------
(* Properties of the routes *)

\* The submitted values that are a URL once a missing scheme is supplied.
WellFormedUrlValues ==
    {Str(<<"example.com">>), Str(<<" ", "EXAMPLE.com", "/pricing", " ">>),
     Str(<<"localhost">>), Str(<<"http://", "example.com">>),
     Str(<<"HTTPS://", "example.com", "/pricing">>), Str(<<"ftp://", "example.com">>)}

\* The URL of a body is empty or malformed: absent, blank or no URL.
EmptyOrMalformed(body, name) ==
    /\ body.k = "obj"
    /\ Get(body, name) \notin WellFormedUrlValues

\* The request submits an empty or malformed URL.
InvalidRequest ==
    IF rtRoute = "analyze" THEN EmptyOrMalformed(rtBody, "url")
    ELSE EmptyOrMalformed(rtBody, "leftUrl") \/ EmptyOrMalformed(rtBody, "rightUrl")

-----------------------------------------------------------------------------
(* The review history: what analyzeAndSave leaves in the store. A stored   *)
(* review is seen by its id, URL and createdAt; the store is kept in the   *)
(* order of creation, so its last rows are the newest.                     *)

MaxSaves == 6

StoredReview(id, url) == [id |-> id, url |-> url, createdAt |-> id]

\* The store after n analyses of the first URL.
SeededStore(n) == [i \in 1..n |-> StoredReview(i, "a.example")]

\* An empty store, and one two reviews short of MAX_HISTORY.
SeededSizes == {0, MAX_HISTORY - 2}

InitHistory ==
    /\ mode = "history"
    /\ \E n \in SeededSizes :
        /\ hiStore = SeededStore(n)
        /\ hiClock = n
    /\ hiSaves = 0
    /\ IdleNotHistory

\* The end of one analyzeAndSave: prisma.review.create, then
\* keepLastFiveReviews.
SaveAndPrune ==
    /\ mode = "history"
    /\ hiSaves < MaxSaves
    /\ \E url \in Urls :
        hiStore' = keepLastFiveReviews(Append(hiStore, StoredReview(hiClock + 1, url)))
    /\ hiClock' = hiClock + 1
    /\ hiSaves' = hiSaves + 1
    /\ UNCHANGED <<mode, notHistoryVars>>

NextHistory == SaveAndPrune

SpecHistory == InitHistory /\ [][NextHistory]_vars

\* The rows of the store are the newest ones created, in order.
NewestKept ==
    \A i \in 1..Len(hiStore) : hiStore[i].createdAt = hiClock - Len(hiStore) + i

\* C20: after any sequence of completed analyzeAndSave calls the store
\* holds at most 5 reviews, and they are the 5 created last.
C20_AtMostFiveNewest ==
    hiSaves > 0 => Len(hiStore) <= 5 /\ NewestKept

\* The normalized URLs of a compare request.
ComparedUrls ==
    <<NormalizedField(rtBody, "leftUrl"), NormalizedField(rtBody, "rightUrl")>>

\* C21: POST /api/compare analyzes both URLs; when both analyses succeed it
\* answers 200 with the left review, the right review and scoreDifference =
\* right score - left score; when either fails it answers 400 with ok: false
\* and the message of a failed analysis, and never a body with one side.
C21_CompareAllOrNothing ==
    (rtRoute = "compare" /\ rtPc \in {"analyzing", "responded"} /\ rtCalls # <<>>) =>
        /\ Len(rtCalls) = 2
        /\ rtCalls[1].url = ComparedUrls[1] /\ rtCalls[2].url = ComparedUrls[2]
        /\ rtPc = "responded" =>
            IF ~IsThrow(rtOutcomes[1]) /\ ~IsThrow(rtOutcomes[2])
            THEN /\ rtResponse.status = 200
                 /\ Get(rtResponse.body, "ok") = Bool(TRUE)
                 /\ Get(rtResponse.body, "left") =
                        Obj([url |-> ComparedUrls[1], review |-> rtOutcomes[1]])
                 /\ Get(rtResponse.body, "right") =
                        Obj([url |-> ComparedUrls[2], review |-> rtOutcomes[2]])
                 /\ Get(rtResponse.body, "scoreDifference") =
                        Num(Get(rtOutcomes[2], "score").n - Get(rtOutcomes[1], "score").n)
            ELSE /\ rtResponse.status = 400
                 /\ Get(rtResponse.body, "ok") = Bool(FALSE)
                 /\ \E i \in 1..2 :
                        /\ IsThrow(rtOutcomes[i])
                        /\ Get(rtResponse.body, "error") = Str(rtOutcomes[i].error.message)
                 /\ DOMAIN rtResponse.body.f = {"ok", "error"}

\* The left analysis succeeded, the right one failed and the request was
\* turned down.
C21_Witness ==
    /\ rtRoute = "compare"
    /\ rtPc = "responded"
    /\ Len(rtOutcomes) = 2
    /\ rtOutcomes[1] = Obj([score |-> Num(82)])
    /\ IsThrow(rtOutcomes[2])
    /\ rtResponse.status = 400
    /\ Get(rtResponse.body, "error") = Str(<<"Navigation timeout">>)

-----------------------------------------------------------------------------
(* GET /api/status: the database ping and runOpenAIHealthCheck. The model  *)
(* call of the health check either resolves or rejects.                    *)

\* process.env.LLM_API_KEY || (provider === "groq" ? GROQ_API_KEY : GROK_API_KEY)
HealthApiKey(env) ==
    env.LLM_API_KEY \/ (IF env.LLM_PROVIDER = "groq" THEN env.GROQ_API_KEY ELSE env.GROK_API_KEY)

\* A status route that reports the database as up whatever the ping did.
DatabaseAlwaysOk(ping) == "OK"

\* let database = "OK"; try { await prisma.$queryRaw } catch { database = "ERROR" }
DatabaseStatus(ping) == IF IsThrow(ping) THEN "ERROR" ELSE "OK"

\* runOpenAIHealthCheck, given whether a key is configured and what the
\* model call came to: "ERROR" without a key or when the call rejects.
runOpenAIHealthCheck(apiKey, completion) ==
    IF ~apiKey THEN "ERROR"
    ELSE IF IsThrow(completion) THEN "ERROR"
    ELSE "OK"

StatusEnvs ==
    [LLM_API_KEY : BOOLEAN, LLM_PROVIDER : {"groq", "grok"},
     GROQ_API_KEY : BOOLEAN, GROK_API_KEY : BOOLEAN]

PingOutcomes ==
    {Arr(<<Obj([ok |-> Num(1)])>>), Raise(PsiError(<<"db down">>)),
     Raise(PsiError(<<"Connection timed out">>))}

HealthCompletions ==
    {Obj([usage |-> Undef]), Obj([usage |-> Obj([total_tokens |-> Num(12)])]),
     Raise(ErrorOf(TRUE, 401, "", <<"Incorrect API key">>)),
     Raise(ErrorOf(TRUE, 429, "insufficient_quota", <<"quota">>)),
     Raise(PsiError(<<"fetch failed">>))}

InitStatus ==
    /\ mode = "status"
    /\ stEnv \in StatusEnvs
    /\ stPc = "received"
    /\ stPing = None
    /\ stDatabase = "OK"
    /\ stCompletion = None
    /\ stLlm = None
    /\ stResponse = None
    /\ IdleNotStatus

\* The try block around the database ping.
PingDatabase ==
    /\ mode = "status"
    /\ stPc = "received"
    /\ \E ping \in PingOutcomes :
        /\ stPing' = ping
        /\ stDatabase' = DatabaseStatus(ping)
    /\ stPc' = "pinged"
    /\ UNCHANGED <<mode, notStatusVars, stEnv, stCompletion, stLlm, stResponse>>

\* const llm = await runOpenAIHealthCheck(): the model is called only when a
\* key is configured.
CheckLlm ==
    /\ mode = "status"
    /\ stPc = "pinged"
    /\ \E completion \in (IF HealthApiKey(stEnv) THEN HealthCompletions ELSE {None}) :
        /\ stCompletion' = completion
        /\ stLlm' = W(runOpenAIHealthCheck(HealthApiKey(stEnv), completion))
    /\ stPc' = "checked"
    /\ UNCHANGED <<mode, notStatusVars, stEnv, stPing, stDatabase, stResponse>>

\* return NextResponse.json({ backend: "OK", database, llm })
RespondStatus ==
    /\ mode = "status"
    /\ stPc = "checked"
    /\ stResponse' = [status |-> 200,
                      body |-> Obj([backend |-> W("OK"), database |-> W(stDatabase),
                                    llm |-> stLlm])]
    /\ stPc' = "responded"
    /\ UNCHANGED <<mode, notStatusVars, stEnv, stPing, stDatabase, stCompletion, stLlm>>

NextStatus == PingDatabase \/ CheckLlm \/ RespondStatus

SpecStatus == InitStatus /\ [][NextStatus]_vars

\* C22: GET /api/status always answers 200 with backend "OK"; database is
\* "ERROR" exactly when the ping failed and "OK" otherwise; whatever the
\* ping did, the LLM health check has run and its result is reported.
C22_StatusAlwaysAnswers ==
    stPc = "responded" =>
        /\ stResponse.status = 200
        /\ Get(stResponse.body, "backend") = W("OK")
        /\ Get(stResponse.body, "database") = (IF IsThrow(stPing) THEN W("ERROR") ELSE W("OK"))
        /\ stLlm \in {W("OK"), W("ERROR")}
        /\ Get(stResponse.body, "llm") = stLlm
        /\ stLlm = W("OK") <=> (HealthApiKey(stEnv) /\ stCompletion.k = "obj")

\* The ping failed and the health check that ran after it succeeded.
C22_Witness ==
    /\ stPc = "responded"
    /\ IsThrow(stPing)
    /\ stCompletion.k = "obj"
    /\ Get(stResponse.body, "database") = W("ERROR")
    /\ Get(stResponse.body, "llm") = W("OK")

\* The documented motion risk of a snapshot, before it is held within 0..100.
DocumentedMotionRisk(s) ==
    Min(20, 12 * s.autoCarousels) + Min(18, 4 * s.infiniteAnimations)
    + Min(14, 4 * s.longDurationAnimations)
    + Min(8, 2 * Max(0, s.scrollRevealElements - 2))
    + (IF s.flashingRisk THEN 24 ELSE 0)
    + (IF s.lcpElementLikelyAnimated THEN 10 ELSE 0)
    + (IF ~s.reducedMotionSupport THEN 12 ELSE 0)
    + (IF s.autoCarousels > 0 /\ ~s.pauseControlPresent THEN 8 ELSE 0)
    - (IF s.reducedMotionSupport /\ s.pauseControlPresent THEN 6 ELSE 0)

\* C23: the risk_score of analyzeMotionSignals is the documented sum (the
\* capped counts, the flags, minus 6 when reduced-motion support and a pause
\* control are both present) held within 0..100.
C23_MotionRiskFormula ==
    (scPhase = "analyzed" /\ scIn.kind = "motion") =>
        scOut.risk_score = Num(Max(0, Min(100, DocumentedMotionRisk(scIn.snapshot))))

\* One auto-carousel with both supports present and nothing else gives 6.
C23_Witness ==
    /\ scPhase = "analyzed"
    /\ scIn.kind = "motion"
    /\ scIn.snapshot.autoCarousels = 1
    /\ scIn.snapshot.infiniteAnimations = 0
    /\ scIn.snapshot.longDurationAnimations = 0
    /\ scIn.snapshot.scrollRevealElements = 0
    /\ ~scIn.snapshot.flashingRisk /\ ~scIn.snapshot.lcpElementLikelyAnimated
    /\ scIn.snapshot.reducedMotionSupport /\ scIn.snapshot.pauseControlPresent
    /\ scOut.risk_score = Num(6)

\* The section of the input a sanitized section is read from.
SectionSource(source, name) ==
    CASE name = "accessibility" ->
            OrElse(Get(source, "accessibility"), OrElse(Get(source, "a11y"), Obj(EmptyRec)))
      [] name = "visual" ->
            OrElse(Get(source, "visual"), OrElse(Get(source, "visual_findings"), Obj(EmptyRec)))
      [] OTHER -> OrElse(Get(source, name), Obj(EmptyRec))

\* An issue reshaped as a finding: the category dropped, every other field kept.
WithoutCategory(issue) == Obj([name \in DOMAIN issue.f \ {"category"} |-> issue.f[name]])

\* The first six issues reshaped as findings.
ReshapedIssues(issues) ==
    [i \in 1..Min(6, Len(issues)) |-> WithoutCategory(issues[i])]

\* What the findings of a section have to be, given the section's own
\* findings after normalization and the top-level issues.
SectionFindingsOk(findings, own, issues) ==
    IF Len(own.a) = 0 THEN findings = Arr(ReshapedIssues(issues.a))
    ELSE findings = own

\* C24: a section (accessibility, seo, visual) with no finding of its own
\* after normalization holds the first 6 top-level issues reshaped as
\* findings, the category dropped and the enrichment fields kept; a section
\* with a valid finding of its own holds its own findings only.
C24_EmptySectionGetsEnrichedIssues ==
    (sanPhase = "once" /\ sanOut # Throw) =>
        \A name \in {"accessibility", "seo", "visual"} :
            SectionFindingsOk(
                Get(Get(sanOut, name), "findings"),
                normalizeFindings(
                    Get(SectionSource(Coalesce(sanIn, Obj(EmptyRec)), name), "findings"), <<>>),
                normalizeIssueList(ListOf(Get(Coalesce(sanIn, Obj(EmptyRec)), "issues"))))

-----------------------------------------------------------------------------
(* The impact an absent impactScore is given *)

\* The item has one of the three severities and the impactScore that the
\* table severityImpact holds for it.
ImpactOfSeverity(item) ==
    /\ Get(item, "severity") \in {Str(<<"high">>), Str(<<"medium">>), Str(<<"low">>)}
    /\ Get(item, "impactScore") = severityImpact(Get(item, "severity"))

\* The issue was handed over without an impactScore and has a severity.
NoImpactSupplied ==
    /\ "impactScore" \notin DOMAIN enIn.f
    /\ "severity" \in DOMAIN enIn.f

\* C25: an issue for which no impactScore was supplied has, once enriched,
\* the impactScore of its severity (90 for high, 65 for medium, 40 for
\* low), whether it is enriched directly or comes out of the sanitizer and
\* is enriched then.
C25_ImpactFromSeverity ==
    NoImpactSupplied =>
        /\ enPhase \in {"once", "twice"} => ImpactOfSeverity(enOut)
        /\ enPhase = "piped" => ImpactOfSeverity(enPiped)

\* The part of C25 that is about direct enrichment alone.
C25_DirectImpactFromSeverity ==
    (NoImpactSupplied /\ enPhase \in {"once", "twice"}) => ImpactOfSeverity(enOut)

-----------------------------------------------------------------------------
(* The priority label of an issue whose three scores are given.            *)

\* Scores on both sides of every threshold of inferPriorityLabel.
LabelScores == {0, 34, 35, 36, 39, 40, 41, 54, 55, 56, 64, 65, 66, 69, 70, 71, 100}

\* The issues: the three scores are set, the label is absent or supplied.
LabelItems ==
    {Obj(DropUndef([category |-> Str(<<"layout">>),
                    title |-> Str(<<"Nav">>),
                    why |-> Str(<<"It", " ", "seems", " ", "crowded">>),
                    evidence |-> Str(<<>>),
                    severity |-> Str(<<"medium">>),
                    impactScore |-> Num(impact),
                    effortScore |-> Num(effort),
                    priorityScore |-> Num(priorityScore),
                    priorityLabel |-> label])) :
        impact \in LabelScores, effort \in LabelScores, priorityScore \in LabelScores,
        label \in {Undef, Str(<<>>), Str(<<"low">>)}}

InitLabel ==
    /\ mode = "label"
    /\ lbItem \in LabelItems
    /\ lbPc = "input"
    /\ lbOut = None
    /\ IdleNotLabel

\* enrichFinding on the issue
LabelIssue ==
    /\ mode = "label"
    /\ lbPc = "input"
    /\ lbOut' = enrichFinding(lbItem)
    /\ lbPc' = "labelled"
    /\ UNCHANGED <<mode, notLabelVars, lbItem>>

NextLabel == LabelIssue

SpecLabel == InitLabel /\ [][NextLabel]_vars

PriorityLabels == {"quick_win", "critical", "high", "medium", "low"}

\* The label the documented order gives, each band with the bands before it
\* ruled out.
LabelIsTheDocumentedOne(label, impact, effort, priorityScore) ==
    /\ label \in PriorityLabels
    /\ label = "quick_win" <=> (impact >= 65 /\ effort <= 35)
    /\ label = "critical" <=> (~(impact >= 65 /\ effort <= 35) /\ priorityScore >= 70)
    /\ label = "high" <=>
        (~(impact >= 65 /\ effort <= 35) /\ priorityScore < 70 /\ priorityScore >= 55)
    /\ label = "medium" <=>
        (~(impact >= 65 /\ effort <= 35) /\ priorityScore < 55 /\ priorityScore >= 40)
    /\ label = "low" <=> (~(impact >= 65 /\ effort <= 35) /\ priorityScore < 40)

\* C26: an absent priorityLabel is inferred in a fixed order: quick_win if
\* impact >= 65 and effort <= 35 (also when priorityScore >= 70), otherwise
\* critical if priorityScore >= 70, high if >= 55, medium if >= 40, else
\* low; every triple of scores gets exactly one of the five labels.
C26_LabelInferredInOrder ==
    (lbPc = "labelled" /\ "priorityLabel" \notin DOMAIN lbItem.f) =>
        /\ Get(lbOut, "priorityLabel").k = "str"
        /\ Len(Get(lbOut, "priorityLabel").s) = 1
        /\ LabelIsTheDocumentedOne(Get(lbOut, "priorityLabel").s[1],
                                   lbItem.f.impactScore.n, lbItem.f.effortScore.n,
                                   lbItem.f.priorityScore.n)

\* An issue with impact 65, effort 35 and priorityScore 70 and no label was
\* labelled a quick win.
C26_Witness ==
    /\ lbPc = "labelled"
    /\ "priorityLabel" \notin DOMAIN lbItem.f
    /\ lbItem.f.impactScore = Num(65)
    /\ lbItem.f.effortScore = Num(35)
    /\ lbItem.f.priorityScore = Num(70)
    /\ Get(lbOut, "priorityLabel") = Str(<<"quick_win">>)

-----------------------------------------------------------------------------
(* runUxAudit: the number of model calls and its termination *)

\* One model call of runUxAudit settles: it rejects or resolves.
ModelCall ==
    \/ \E error \in CallErrors : ModelFails(error)
    \/ \E text \in ReplyTexts : ModelReplies(text)

\* runUxAudit as analyzeAndSave calls it, one analysis after the other.
NextAudit ==
    \/ \E url \in Urls, source \in Sources, payload \in Payloads :
          AnalyzeStart(url, source, payload)
    \/ ModelCall

\* The audits with every model call settling: the client gives up on a
\* call after its time-out, and the sleep between two attempts ends.
SpecAuditLive == Init /\ [][NextAudit]_vars /\ WF_vars(ModelCall)

\* The errors the loop is documented not to retry: an empty response, a
\* reply that is no JSON, and a 4xx status other than 408, 409 and 429.
NonRetryable(error) ==
    \/ Raise(error) \in {EmptyResponseError, NoJsonError, SyntaxError}
    \/ error.api /\ error.status \in (400..499) \ {408, 409, 429}

\* What holds of an audit at every moment.
AuditBounded ==
    /\ calls <= MAX_RETRIES + 1
    /\ Len(errors) <= calls
    /\ pc = "audit" => calls = Len(errors) /\ calls <= MAX_RETRIES
    /\ auditVia = "threw" /\ errors # <<>> => thrown = errors[Len(errors)]
    /\ auditVia = "model" => review.k = "obj" /\ IsScore(review.f.score)
    /\ auditVia = "fallback" => review = createFallbackReview(trimAuditInput(req.payload))
    /\ \A i \in 1..Len(errors) :
          NonRetryable(errors[i]) => i = Len(errors) /\ calls = i /\ auditVia \in {"threw", "fallback"}

-----------------------------------------------------------------------------
(* runScheduledAudits and POST /api/cron/run. Time is counted in days.     *)

MaxRuns == 2
MaxClock == 4
Today == 2

AuditIds == {"a1", "a2", "a3"}

\* The frequency each audit was created with.
FrequencyOf(id) ==
    CASE id = "a1" -> "daily"
      [] id = "a2" -> "weekly"
      [] OTHER -> "monthly"

\* The days calculateNextRunDate adds: setDate(+1), setDate(+7), and
\* setMonth(+1), which is as long as the month is.
PeriodsOf(frequency) ==
    CASE frequency = "daily" -> {1}
      [] frequency = "weekly" -> {7}
      [] OTHER -> {28, 31}

\* A row of the scheduledAudit table.
AuditRow(id, active, nextRunAt) ==
    [id |-> id, url |-> id, frequency |-> FrequencyOf(id), active |-> active,
     lastRunAt |-> Null, nextRunAt |-> nextRunAt]

\* cronSecret && authHeader !== `Bearer ${cronSecret}`
Unauthorized(cronSecret, authHeader) ==
    Truthy(cronSecret) /\ authHeader # Str(<<"Bearer ">> \o cronSecret.s)

CronSecrets == {Undef, Str(<<"s3cret">>)}
AuthHeaders == {Null, Str(<<"Bearer ", "s3cret">>), Str(<<"Bearer ", "guess">>)}

\* where: { active: true, nextRunAt: { lte: now } }
IsDue(row, now) == row.active /\ row.nextRunAt <= now

\* The orders in which findMany, without orderBy, may return the rows.
RowOrders(rows) ==
    {s \in [1..Cardinality(rows) -> rows] : \A i, j \in DOMAIN s : i # j => s[i] # s[j]}

\* The loop gives up at the first audit that fails.
AfterFailureStop(idx, due) == Len(due) + 1

\* The catch block inside the loop: the failure is logged and the loop goes
\* on with the next audit.
AfterFailure(idx, due) == idx + 1

InitSched ==
    /\ mode = "sched"
    /\ saAudits \in {[id \in AuditIds |-> AuditRow(id, active[id], nextRunAt[id])] :
                        active \in [AuditIds -> BOOLEAN],
                        nextRunAt \in [AuditIds -> {Today - 1, Today + 2}]}
    /\ saClock = Today
    /\ saPc = "idle"
    /\ saNow = 0
    /\ saDue = <<>>
    /\ saIdx = 0
    /\ saAttempts = <<>>
    /\ saResponse = 0
    /\ saRuns = 0
    /\ IdleNotSched

\* POST /api/cron/run up to the for loop of runScheduledAudits.
PostCronRun(cronSecret, authHeader, databaseUp) ==
    /\ mode = "sched"
    /\ saPc = "idle"
    /\ saRuns < MaxRuns
    /\ saRuns' = saRuns + 1
    /\ saAttempts' = <<>>
    /\ IF Unauthorized(cronSecret, authHeader)
       THEN /\ saResponse' = 401
            /\ saPc' = "responded"
            /\ saDue' = <<>>
            /\ saIdx' = 0
            /\ UNCHANGED saNow
       ELSE IF ~databaseUp
       THEN /\ saResponse' = 500
            /\ saPc' = "responded"
            /\ saDue' = <<>>
            /\ saIdx' = 0
            /\ saNow' = saClock
       ELSE /\ saNow' = saClock
            /\ saDue' \in RowOrders({saAudits[id] : id \in {i \in DOMAIN saAudits :
                                                               IsDue(saAudits[i], saClock)}})
            /\ saIdx' = 1
            /\ saPc' = "running"
            /\ UNCHANGED saResponse
    /\ UNCHANGED <<mode, notSchedVars, saAudits, saClock>>

\* One turn of the loop in which analyzeAndSave resolves: the update of the
\* row follows, and throws if the row is gone.
AuditAnalyzed(elapsed, period) ==
    /\ mode = "sched"
    /\ saPc = "running"
    /\ saIdx <= Len(saDue)
    /\ period \in PeriodsOf(saDue[saIdx].frequency)
    /\ saClock' = Min(MaxClock, saClock + elapsed)
    /\ IF saDue[saIdx].id \in DOMAIN saAudits
       THEN /\ saAudits' = [saAudits EXCEPT ![saDue[saIdx].id].lastRunAt = Num(saNow),
                                            ![saDue[saIdx].id].nextRunAt = saClock' + period]
            /\ saAttempts' = Append(saAttempts, [id |-> saDue[saIdx].id, ended |-> "completed"])
            /\ saIdx' = saIdx + 1
       ELSE /\ saAttempts' = Append(saAttempts, [id |-> saDue[saIdx].id, ended |-> "failed"])
            /\ saIdx' = AfterFailure(saIdx, saDue)
            /\ UNCHANGED saAudits
    /\ UNCHANGED <<mode, notSchedVars, saPc, saNow, saDue, saResponse, saRuns>>

\* One turn of the loop in which analyzeAndSave rejects.
AuditFails(elapsed) ==
    /\ mode = "sched"
    /\ saPc = "running"
    /\ saIdx <= Len(saDue)
    /\ saClock' = Min(MaxClock, saClock + elapsed)
    /\ saAttempts' = Append(saAttempts, [id |-> saDue[saIdx].id, ended |-> "failed"])
    /\ saIdx' = AfterFailure(saIdx, saDue)
    /\ UNCHANGED <<mode, notSchedVars, saAudits, saPc, saNow, saDue, saResponse, saRuns>>

\* The loop is through; the route answers.
CronRunResponds ==
    /\ mode = "sched"
    /\ saPc = "running"
    /\ saIdx > Len(saDue)
    /\ saResponse' = 200
    /\ saPc' = "responded"
    /\ UNCHANGED <<mode, notSchedVars, saAudits, saClock, saNow, saDue, saIdx, saAttempts, saRuns>>

\* removeScheduledAudit, from another request.
RemoveAudit(id) ==
    /\ mode = "sched"
    /\ id \in DOMAIN saAudits
    /\ saAudits' = [i \in DOMAIN saAudits \ {id} |-> saAudits[i]]
    /\ UNCHANGED <<mode, notSchedVars, saClock, saPc, saNow, saDue, saIdx, saAttempts,
                   saResponse, saRuns>>

\* Time goes by until the next cron request.
AwaitNextRun(elapsed) ==
    /\ mode = "sched"
    /\ saPc = "responded"
    /\ saRuns < MaxRuns
    /\ saClock' = Min(MaxClock, saClock + elapsed)
    /\ saPc' = "idle"
    /\ UNCHANGED <<mode, notSchedVars, saAudits, saNow, saDue, saIdx, saAttempts, saResponse,
                   saRuns>>

NextSched ==
    \/ \E cronSecret \in CronSecrets, authHeader \in AuthHeaders, databaseUp \in BOOLEAN :
          PostCronRun(cronSecret, authHeader, databaseUp)
    \/ \E elapsed \in {0, 1}, period \in {1, 7, 28, 31} : AuditAnalyzed(elapsed, period)
    \/ \E elapsed \in {0, 1} : AuditFails(elapsed)
    \/ CronRunResponds
    \/ \E id \in AuditIds : RemoveAudit(id)
    \/ \E elapsed \in {0, 1} : AwaitNextRun(elapsed)

SpecSched == InitSched /\ [][NextSched]_vars

-----------------------------------------------------------------------------
(* Properties of the scheduled audits *)

\* The audit of the i-th turn is still in the table.
StillThere(i) == saAttempts[i].id \in DOMAIN saAudits

\* C28: in a run of runScheduledAudits only audits that were active with
\* nextRunAt <= now are analyzed, each at most once; an audit whose
\* analysis failed keeps its lastRunAt and nextRunAt, so it is still due;
\* and a failure keeps none of the remaining due audits from being
\* analyzed and rescheduled.
C28_FailureIsolatedPerAudit ==
    /\ \A i \in 1..Len(saDue) : IsDue(saDue[i], saNow)
    /\ \A i, j \in 1..Len(saDue) : i # j => saDue[i].id # saDue[j].id
    /\ Len(saAttempts) <= Len(saDue)
    /\ \A i \in 1..Len(saAttempts) : saAttempts[i].id = saDue[i].id
    /\ \A i \in 1..Len(saAttempts) :
          (saAttempts[i].ended = "failed" /\ StillThere(i)) =>
              /\ saAudits[saDue[i].id] = saDue[i]
              /\ IsDue(saAudits[saDue[i].id], saClock)
    /\ \A i \in 1..Len(saAttempts) :
          (saAttempts[i].ended = "completed" /\ StillThere(i)) =>
              /\ saAudits[saDue[i].id].lastRunAt = Num(saNow)
              /\ saAudits[saDue[i].id].nextRunAt > saNow
    /\ (saPc = "responded" /\ saResponse = 200) => Len(saAttempts) = Len(saDue)

\* Three audits were due; the analysis of the first failed, the other two
\* were analyzed and rescheduled, and the run is over.
C28_Witness ==
    /\ saPc = "responded"
    /\ saResponse = 200
    /\ Len(saDue) = 3
    /\ Len(saAttempts) = 3
    /\ saAttempts[1].ended = "failed"
    /\ saAttempts[2].ended = "completed"
    /\ saAttempts[3].ended = "completed"
    /\ DOMAIN saAudits = AuditIds
    /\ saAudits[saDue[1].id].lastRunAt = Null
    /\ saAudits[saDue[2].id].lastRunAt = Num(saNow)

-----------------------------------------------------------------------------
(* Two analyzeAndSave calls side by side, as Promise.all of POST           *)
(* /api/compare starts them: each creates its row, reads the stale ids and *)
(* deletes them, and the three steps of one call interleave with those of  *)
(* the other.                                                              *)

CompareSides == {"left", "right"}

\* The table sizes the two calls may find: empty, and up to MAX_HISTORY.
ConcurrentSeeds == {0, MAX_HISTORY - 2, MAX_HISTORY - 1, MAX_HISTORY}

\* The rows that come before the skip of findMany is used up, for sure.
OlderThan(rows, t) == {r \in rows : r.createdAt < t}
UpTo(rows, t) == {r \in rows : r.createdAt <= t}

\* The createdAt of the last row that is skipped over from the old end.
StaleBoundary(rows, k) ==
    CHOOSE t \in {r.createdAt : r \in rows} :
        Cardinality(OlderThan(rows, t)) < k /\ k <= Cardinality(UpTo(rows, t))

\* The stale ids when the rows are taken oldest first, so that the rows
\* beyond the skip are the newest ones.
StaleSetsAscending(rows) ==
    IF Cardinality(rows) <= MAX_HISTORY THEN {{}}
    ELSE {{r.id : r \in {x \in rows : x.createdAt > MAX_HISTORY}}}

\* findMany({orderBy: {createdAt: "desc"}, skip: MAX_HISTORY, select: {id}}):
\* the ids of all rows but the MAX_HISTORY newest; among rows of one
\* createdAt the order is the database's.
StaleSets(rows) ==
    IF Cardinality(rows) <= MAX_HISTORY THEN {{}}
    ELSE {{r.id : r \in OlderThan(rows, StaleBoundary(rows, Cardinality(rows) - MAX_HISTORY))
                        \cup ties} :
            ties \in {s \in SUBSET (UpTo(rows, StaleBoundary(rows, Cardinality(rows) - MAX_HISTORY))
                                     \ OlderThan(rows, StaleBoundary(rows, Cardinality(rows) - MAX_HISTORY))) :
                        Cardinality(s) = Cardinality(rows) - MAX_HISTORY
                            - Cardinality(OlderThan(rows, StaleBoundary(rows, Cardinality(rows) - MAX_HISTORY)))}}

InitConcurrent ==
    /\ mode = "concurrent"
    /\ \E size \in ConcurrentSeeds : ccStore = {[id |-> i, createdAt |-> i] : i \in 1..size}
    /\ ccClock = MAX_HISTORY + 1
    /\ ccPc = [side \in CompareSides |-> "create"]
    /\ ccCreated = [side \in CompareSides |-> 0]
    /\ ccStale = [side \in CompareSides |-> {}]
    /\ IdleNotConcurrent

\* prisma.review.create of one call; createdAt is the time of the insert.
CreateReview(side, elapsed) ==
    /\ mode = "concurrent"
    /\ ccPc[side] = "create"
    /\ ccClock' = ccClock + elapsed
    /\ ccStore' = ccStore \cup {[id |-> MAX_HISTORY + 1 + Cardinality({s \in CompareSides :
                                                                         ccCreated[s] # 0}),
                                 createdAt |-> ccClock']}
    /\ ccCreated' = [ccCreated EXCEPT ![side] =
                        MAX_HISTORY + 1 + Cardinality({s \in CompareSides : ccCreated[s] # 0})]
    /\ ccPc' = [ccPc EXCEPT ![side] = "find"]
    /\ UNCHANGED <<mode, notConcurrentVars, ccStale>>

\* The findMany of keepLastFiveReviews of one call.
FindStale(side) ==
    /\ mode = "concurrent"
    /\ ccPc[side] = "find"
    /\ \E stale \in StaleSets(ccStore) : ccStale' = [ccStale EXCEPT ![side] = stale]
    /\ ccPc' = [ccPc EXCEPT ![side] = "delete"]
    /\ UNCHANGED <<mode, notConcurrentVars, ccStore, ccClock, ccCreated>>

\* The deleteMany of keepLastFiveReviews of one call (none when no id is
\* stale); the call then comes to its end.
DeleteStale(side) ==
    /\ mode = "concurrent"
    /\ ccPc[side] = "delete"
    /\ ccStore' = {r \in ccStore : r.id \notin ccStale[side]}
    /\ ccPc' = [ccPc EXCEPT ![side] = "done"]
    /\ UNCHANGED <<mode, notConcurrentVars, ccClock, ccCreated, ccStale>>

NextConcurrent ==
    \/ \E side \in CompareSides, elapsed \in {0, 1} : CreateReview(side, elapsed)
    \/ \E side \in CompareSides : FindStale(side)
    \/ \E side \in CompareSides : DeleteStale(side)

SpecConcurrent == InitConcurrent /\ [][NextConcurrent]_vars

\* C29: when two analyzeAndSave calls run side by side, whatever the order
\* of their create, findMany and deleteMany steps, once both have come to
\* their end the table holds at most MAX_HISTORY reviews and the review
\* each call created is still there.
C29_ConcurrentSavesKeepBoth ==
    (\A side \in CompareSides : ccPc[side] = "done") =>
        /\ Cardinality(ccStore) <= MAX_HISTORY
        /\ \A side \in CompareSides : \E r \in ccStore : r.id = ccCreated[side]

\* Both calls created their row before either looked for stale ids, both
\* found the same two stale ids on a full table, and both are through.
C29_Witness ==
    /\ \A side \in CompareSides : ccPc[side] = "done"
    /\ ccStale["left"] = {1, 2}
    /\ ccStale["right"] = {1, 2}
    /\ Cardinality(ccStore) = MAX_HISTORY
    /\ \E r \in ccStore : r.id = ccCreated["left"] /\ r.createdAt = MAX_HISTORY + 1
    /\ \E r \in ccStore : r.id = ccCreated["right"] /\ r.createdAt = MAX_HISTORY + 1

-----------------------------------------------------------------------------
(* analyzeAndSave from prisma.review.create on, with the delivery of the   *)
(* alerts (alerts.ts): every alert goes to the e-mail and to the Slack     *)
(* channel, and each channel logs how it went.                             *)

\* Boolean(host && user && pass && from && Number.isFinite(port)), with
\* from = SMTP_FROM || user and the port left at its default
SmtpEnabled(env) ==
    Truthy(env.SMTP_HOST) /\ Truthy(env.SMTP_USER) /\ Truthy(env.SMTP_PASS)
    /\ Truthy(OrElse(env.SMTP_FROM, env.SMTP_USER))

\* getEmailRecipients: ALERT_EMAIL_TO, or else the trimmed SMTP_USER
HasRecipients(env) ==
    \/ Trim(OrElse(env.ALERT_EMAIL_TO, Str(<<>>)).s) # <<>>
    \/ Truthy(env.SMTP_USER) /\ Trim(env.SMTP_USER.s) # <<>>

\* What sendEmail logs; it resolves in every case. sent is how
\* transporter.sendMail ends.
sendEmail(env, sent) ==
    IF ~SmtpEnabled(env) THEN "email.smtp_not_configured"
    ELSE IF ~HasRecipients(env) THEN "email.no_recipients"
    ELSE IF sent = "rejects" THEN "email.failed"
    ELSE "email.sent"

\* What sendSlackWebhook logs; it resolves in every case. response is how
\* the fetch ends: a 2xx, another status, or a network error.
sendSlackWebhook(env, response) ==
    IF ~Truthy(env.SLACK_WEBHOOK_URL) THEN "slack.no_webhook_url"
    ELSE IF response = "ok" THEN "slack.sent"
    ELSE "slack.failed"

\* Promise.allSettled([sendEmail(params), sendSlackWebhook(params)])
notifyChannels(env, alert, sent, response) ==
    [type |-> alert.type, email |-> sendEmail(env, sent),
     slack |-> sendSlackWebhook(env, response)]

\* The alert did not get through on the channel.
Undelivered(entry) ==
    entry.email # "email.sent" \/ entry.slack # "slack.sent"

\* analyzeAndSave throwing when an alert did not get through.
AnalysisResultIfDelivered(log, analysis) ==
    IF \E i \in 1..Len(log) : Undelivered(log[i])
    THEN Raise(PsiError(<<"Alert delivery failed">>))
    ELSE analysis

\* return { ...review, screenshots, performance, websiteHealthScore }
AnalysisResult(log, analysis) == analysis

AlertEnvs ==
    [SMTP_HOST : {Undef, Str(<<"smtp.example.com">>)},
     SMTP_USER : {Undef, Str(<<" ">>), Str(<<"ops@example.com">>)},
     SMTP_PASS : {Undef, Str(<<"secret">>)},
     SMTP_FROM : {Undef},
     ALERT_EMAIL_TO : {Undef, Str(<<"team@example.com">>)},
     SLACK_WEBHOOK_URL : {Undef, Str(<<"https://", "hooks.slack.com">>)}]

\* The analyses about to be saved: the source of the call, the previous
\* review of the URL if there is one, and the new scores.
AlertRequests ==
    [url : {"a.example"},
     source : Sources,
     previous : {Null, Row("a.example", Num(90), Num(80)), Row("a.example", Num(60), Null)},
     score : {50, 85},
     health : {55}]

\* The alerts analyzeAndSave sends once the review is stored.
AlertsOf(analysis) ==
    (IF analysis.previous # Null
        /\ DropCallsAlert(analysis.previous, analysis.score, analysis.health)
     THEN sendScoreDropAlert(analysis.url, analysis.previous.score.n, analysis.score)
     ELSE <<>>)
    \o (IF analysis.source = "scheduled.audit" THEN sendAuditCompleteAlert(analysis.url)
        ELSE <<>>)

\* What analyzeAndSave resolves with.
AnalysisOf(analysis) == Obj([score |-> Num(analysis.score), websiteHealthScore |-> Num(analysis.health)])

InitAlerts ==
    /\ mode = "alerts"
    /\ alEnv \in AlertEnvs
    /\ alReq \in AlertRequests
    /\ alPc = "analyzed"
    /\ alPersisted = FALSE
    /\ alQueue = <<>>
    /\ alLog = <<>>
    /\ alResult = None
    /\ IdleNotAlerts

\* prisma.review.create and keepLastFiveReviews; either may reject, which
\* analyzeAndSave rethrows.
PersistReview(created, pruned) ==
    /\ mode = "alerts"
    /\ alPc = "analyzed"
    /\ alPersisted' = created
    /\ IF created /\ pruned
       THEN /\ alQueue' = AlertsOf(alReq)
            /\ alPc' = "alert"
            /\ UNCHANGED alResult
       ELSE /\ alResult' = Raise(PsiError(<<"Database unavailable">>))
            /\ alPc' = "rejected"
            /\ UNCHANGED alQueue
    /\ UNCHANGED <<mode, notAlertsVars, alEnv, alReq, alLog>>

\* The next alert is handed to notifyChannels.
SendAlert(sent, response) ==
    /\ mode = "alerts"
    /\ alPc = "alert"
    /\ alQueue # <<>>
    /\ alLog' = Append(alLog, notifyChannels(alEnv, Head(alQueue), sent, response))
    /\ alQueue' = Tail(alQueue)
    /\ UNCHANGED <<mode, notAlertsVars, alEnv, alReq, alPc, alPersisted, alResult>>

\* No alert is left to send: analyzeAndSave returns.
AnalyzeReturns ==
    /\ mode = "alerts"
    /\ alPc = "alert"
    /\ alQueue = <<>>
    /\ alResult' = AnalysisResult(alLog, AnalysisOf(alReq))
    /\ alPc' = IF IsThrow(alResult') THEN "rejected" ELSE "returned"
    /\ UNCHANGED <<mode, notAlertsVars, alEnv, alReq, alPersisted, alQueue, alLog>>

NextAlerts ==
    \/ \E created \in BOOLEAN, pruned \in BOOLEAN : PersistReview(created, pruned)
    \/ \E sent \in {"resolves", "rejects"}, response \in {"ok", "status 500", "network error"} :
          SendAlert(sent, response)
    \/ AnalyzeReturns

SpecAlerts == InitAlerts /\ [][NextAlerts]_vars

\* C30: an alert that cannot be delivered (SMTP not configured, a send
\* error, no Slack webhook, a non-2xx answer or a network error) never makes
\* analyzeAndSave fail: the Review is stored before any alert is attempted,
\* and the analysis is returned to the caller all the same.
C30_AlertFailureNeverFailsAnalysis ==
    /\ (alLog # <<>> \/ alQueue # <<>>) => alPersisted
    /\ alPc = "rejected" => alLog = <<>> /\ alQueue = <<>>
    /\ alPc = "returned" => alResult = AnalysisOf(alReq) /\ Len(alLog) = Len(AlertsOf(alReq))

\* A scheduled audit whose score dropped: both alerts failed on both
\* channels, and the analysis was returned.
C30_Witness ==
    /\ alPc = "returned"
    /\ alPersisted
    /\ Len(alLog) = 2
    /\ alLog[1] = [type |-> "score_drop", email |-> "email.failed", slack |-> "slack.failed"]
    /\ alLog[2].type = "audit_complete"
    /\ alLog[2].email = "email.failed"
    /\ alLog[2].slack = "slack.failed"
    /\ alResult = AnalysisOf(alReq)

====
